---------------------------- MODULE Spec2Model ----------------------------
(***************************************************************************)
(* A model of odea (src/odea.py): the tag-file codec (_make_tags,          *)
(* _parse_tags, _load_tag_file), the filename identity of a File           *)
(* (get_uuid, tag, get_filename_parts, rename) and File.derive.            *)
(*                                                                         *)
(* Text is modelled character by character: a Python str is a sequence of  *)
(* one-character strings, so that splitting, stripping, wrapping and       *)
(* pattern matching are computed as the code computes them.                *)
(***************************************************************************)
EXTENDS Integers, Sequences, FiniteSets, TLC

VARIABLES
    pc,          \* which step of the current scenario has been taken
    metadata,    \* tag codec: the mapping handed to _make_tags
    strip_nulls, \* tag codec: _make_tags' strip_nulls argument
    tagText,     \* tag codec: the text _make_tags returned (the file content)
    tags,        \* tag codec: what _load_tag_file returned (or the error)
    file,        \* the File object's attributes
    disk,        \* the file system: path -> "file" | "dir"
    call         \* the last method call: its arguments, result and effects

vars == <<pc, metadata, strip_nulls, tagText, tags, file, disk, call>>

(***************************************************************************)
(* Characters and Python's str methods                                     *)
(***************************************************************************)

\* The characters of the model in code-point order (the order Python's
\* sorted() and range patterns such as [0-F] use).
CharOrder ==
    << "\t", "\n", "\r", " ", "-", ".", "/",
       "0", "1", "2", "3", "4", "5", "6", "7", "8", "9",
       ":", ";", "<", "=", ">", "?", "@",
       "A", "B", "C", "D", "E", "F", "G", "H", "I", "J", "K", "L", "M",
       "N", "O", "P", "Q", "R", "S", "T", "U", "V", "W", "X", "Y", "Z",
       "_",
       "a", "b", "c", "d", "e", "f", "g", "h", "i", "j", "k", "l", "m",
       "n", "o", "p", "q", "r", "s", "t", "u", "v", "w", "x", "y", "z" >>

Ord(c) == CHOOSE i \in 1..Len(CharOrder) : CharOrder[i] = c

\* the least and the greatest element of a non-empty set of integers
Least(S) == CHOOSE i \in S : \A j \in S : i <= j
Greatest(S) == CHOOSE i \in S : \A j \in S : j <= i

\* the letters of the model that have two cases
UpperCase ==
    <<"A", "B", "C", "D", "E", "F", "G", "H", "I", "J", "K", "L", "M",
      "N", "O", "P", "Q", "R", "S", "T", "U", "V", "W", "X", "Y", "Z">>
LowerCase ==
    <<"a", "b", "c", "d", "e", "f", "g", "h", "i", "j", "k", "l", "m",
      "n", "o", "p", "q", "r", "s", "t", "u", "v", "w", "x", "y", "z">>

\* str.lower() on one character
LowerChar(c) ==
    IF \E i \in 1..Len(UpperCase) : UpperCase[i] = c
    THEN LowerCase[CHOOSE i \in 1..Len(UpperCase) : UpperCase[i] = c]
    ELSE c

\* str.lower()
Lower(s) == [i \in 1..Len(s) |-> LowerChar(s[i])]

\* str.upper() on one character
UpperChar(c) ==
    IF \E i \in 1..Len(LowerCase) : LowerCase[i] = c
    THEN UpperCase[CHOOSE i \in 1..Len(LowerCase) : LowerCase[i] = c]
    ELSE c

\* str.upper()
Upper(s) == [i \in 1..Len(s) |-> UpperChar(s[i])]

\* c.isspace()
IsSpace(c) == c \in {" ", "\t", "\n", "\r"}

\* s.replace(a, b) for single characters a and b
ReplaceChar(s, a, b) == [i \in 1..Len(s) |-> IF s[i] = a THEN b ELSE s[i]]

\* n copies of the character c
Rep(c, n) == [i \in 1..n |-> c]

\* s[i:j] with Python's 0-based, end-exclusive slice written 1-based, inclusive
Slice(s, i, j) == IF i > j THEN <<>> ELSE SubSeq(s, i, j)

\* whether t occurs in s at (1-based) position i
OccursAt(s, t, i) ==
    /\ i >= 1
    /\ i + Len(t) - 1 <= Len(s)
    /\ \A k \in 1..Len(t) : s[i + k - 1] = t[k]

\* t in s
Contains(s, t) == \E i \in 1..(Len(s) + 1) : OccursAt(s, t, i)

\* s.find(t, from): the first position >= from where t occurs, 0 if none
Find(s, t, from) ==
    LET at == {i \in from..(Len(s) + 1) : OccursAt(s, t, i)}
    IN IF at = {} THEN 0 ELSE Least(at)

\* s.lstrip(chars) / s.rstrip(chars) / s.strip(chars), chars a set
LStrip(s, chars) ==
    LET keep == {i \in 1..Len(s) : s[i] \notin chars}
    IN IF keep = {} THEN <<>> ELSE SubSeq(s, Least(keep), Len(s))

RStrip(s, chars) ==
    LET keep == {i \in 1..Len(s) : s[i] \notin chars}
    IN IF keep = {} THEN <<>> ELSE SubSeq(s, 1, Greatest(keep))

Strip(s, chars) == RStrip(LStrip(s, chars), chars)

Whitespace == {" ", "\t", "\n", "\r"}

\* sep.join(parts)
RECURSIVE Join(_, _)
Join(parts, sep) ==
    IF parts = <<>> THEN <<>>
    ELSE IF Len(parts) = 1 THEN parts[1]
    ELSE parts[1] \o sep \o Join(Tail(parts), sep)

\* s.split(sep): the pieces between the non-overlapping occurrences of sep,
\* found left to right; maxsplit < 0 means no limit
RECURSIVE Split(_, _, _)
Split(s, sep, maxsplit) ==
    LET p == Find(s, sep, 1) IN
    IF maxsplit = 0 \/ p = 0 THEN <<s>>
    ELSE <<Slice(s, 1, p - 1)>>
         \o Split(Slice(s, p + Len(sep), Len(s)), sep, maxsplit - 1)

\* a < b for Python strings (code-point order, a prefix sorts first)
RECURSIVE StrLess(_, _)
StrLess(a, b) ==
    IF b = <<>> THEN FALSE
    ELSE IF a = <<>> THEN TRUE
    ELSE IF Head(a) = Head(b) THEN StrLess(Tail(a), Tail(b))
    ELSE Ord(Head(a)) < Ord(Head(b))

\* sorted(S) for a set S of strings
RECURSIVE Sorted(_)
Sorted(S) ==
    IF S = {} THEN <<>>
    ELSE LET m == CHOOSE x \in S : \A y \in S \ {x} : StrLess(x, y)
         IN <<m>> \o Sorted(S \ {m})

\* the elements of a sequence
Range(s) == {s[i] : i \in 1..Len(s)}

(***************************************************************************)
(* Python values of the tag codec                                          *)
(***************************************************************************)

\* None, a str, and a list of such values
NoneV == [t |-> "none", s |-> <<>>, l |-> <<>>]
StrV(s) == [t |-> "str", s |-> s, l |-> <<>>]
ListV(l) == [t |-> "list", s |-> <<>>, l |-> l]

sNone == <<"N", "o", "n", "e">>
sNull == <<"n", "u", "l", "l">>

\* str(v)
PyStr(v) == IF v.t = "none" THEN sNone ELSE v.s

(***************************************************************************)
(* textwrap.wrap, as _make_tags calls it                                   *)
(***************************************************************************)

\* chunk.strip() == ''
IsBlank(chunk) == \A i \in 1..Len(chunk) : IsSpace(chunk[i])

\* the length of the leading run of characters that are whitespace (sp) or
\* are not (~sp)
RunLen(s, sp) ==
    LET other == {i \in 1..Len(s) : IsSpace(s[i]) # sp}
    IN IF other = {} THEN Len(s) ELSE Least(other) - 1

\* TextWrapper._munge_whitespace: every whitespace character becomes a space
MungeWhitespace(s) == [i \in 1..Len(s) |-> IF IsSpace(s[i]) THEN " " ELSE s[i]]

\* TextWrapper._split with break_on_hyphens=False: re.split(r'(\s+)', text)
\* without the empty pieces: words and whitespace runs, alternating
RECURSIVE SplitChunks(_)
SplitChunks(s) ==
    IF s = <<>> THEN <<>>
    ELSE LET n == RunLen(s, IsSpace(Head(s)))
         IN <<SubSeq(s, 1, n)>> \o SplitChunks(SubSeq(s, n + 1, Len(s)))

\* the inner loop of _wrap_chunks: how many chunks fit on the current line
RECURSIVE FillCount(_, _, _)
FillCount(chunks, cur_len, width) ==
    IF chunks # <<>> /\ cur_len + Len(Head(chunks)) <= width
    THEN 1 + FillCount(Tail(chunks), cur_len + Len(Head(chunks)), width)
    ELSE 0

\* TextWrapper._wrap_chunks with drop_whitespace=True, break_long_words=False,
\* initial_indent='' and max_lines=None
RECURSIVE WrapChunks(_, _, _, _)
WrapChunks(chunks, lines, width, subsequent_indent) ==
    IF chunks = <<>> THEN lines
    ELSE
      LET indent == IF lines # <<>> THEN subsequent_indent ELSE <<>>
          w      == width - Len(indent)
          \* a whitespace chunk at the start of a line is dropped, except at
          \* the very beginning of the text
          c1     == IF IsBlank(Head(chunks)) /\ lines # <<>>
                    THEN Tail(chunks) ELSE chunks
          n      == FillCount(c1, 0, w)
          taken  == SubSeq(c1, 1, n)
          rest   == SubSeq(c1, n + 1, Len(c1))
          \* _handle_long_word, break_long_words=False: a chunk too long for
          \* any line goes on a line of its own, unbroken
          long   == rest # <<>> /\ Len(Head(rest)) > w /\ taken = <<>>
          cur2   == IF long THEN <<Head(rest)>> ELSE taken
          rest2  == IF long THEN Tail(rest) ELSE rest
          \* a whitespace chunk at the end of a line is dropped
          cur3   == IF cur2 # <<>> /\ IsBlank(cur2[Len(cur2)])
                    THEN SubSeq(cur2, 1, Len(cur2) - 1) ELSE cur2
          lines2 == IF cur3 # <<>>
                    THEN Append(lines, indent \o Join(cur3, <<>>))
                    ELSE lines
      IN WrapChunks(rest2, lines2, width, subsequent_indent)

\* textwrap.wrap(text, width=width, subsequent_indent=indent,
\*               break_on_hyphens=False, break_long_words=False)
Wrap(text, width, subsequent_indent) ==
    WrapChunks(SplitChunks(MungeWhitespace(text)), <<>>, width,
               subsequent_indent)

(***************************************************************************)
(* _make_tags                                                              *)
(***************************************************************************)

TERMS ==
    << <<"d","c","m","i","_","t","y","p","e">>,
       <<"t","i","t","l","e">>,
       <<"i","d","e","n","t","i","f","i","e","r">>,
       <<"c","r","e","a","t","o","r">>,
       <<"s","u","b","j","e","c","t">>,
       <<"c","o","n","t","r","i","b","u","t","o","r">>,
       <<"c","o","v","e","r","a","g","e">>,
       <<"d","a","t","e">>,
       <<"d","e","s","c","r","i","p","t","i","o","n">>,
       <<"l","a","n","g","u","a","g","e">>,
       <<"p","u","b","l","i","s","h","e","r">>,
       <<"r","e","l","a","t","i","o","n">>,
       <<"r","i","g","h","t","s">>,
       <<"s","o","u","r","c","e">>,
       <<"n","o","t","e">> >>

\* the column at which _make_tags wraps a line
WrapWidth == 70

\* the indent of a continuation line
SubsequentIndent == <<" ", " ", " ", " ">>

CRLF == <<"\r", "\n">>

\* re.sub(r"(\r\n)|\n|\r", " ", s)
SubNewlines(s) ==
    LET \* the \n of a \r\n pair is replaced together with its \r
        kept == SelectSeq([i \in 1..Len(s) |-> i],
                          LAMBDA i : ~(s[i] = "\n" /\ i > 1 /\ s[i - 1] = "\r"))
    IN [n \in 1..Len(kept) |->
          IF s[kept[n]] \in {"\r", "\n"} THEN " " ELSE s[kept[n]]]

\* metadata.keys(), in the dict's own order
Keys(m) == [i \in 1..Len(m) |-> m[i].k]

\* metadata[h]
Lookup(m, h) == (CHOOSE i \in 1..Len(m) : m[i].k = h)

\* the headers of _make_tags: the keys that are TERMS, in the order the
\* mapping holds them, then every other key, sorted
Headers(m) ==
    LET first == SelectSeq(Keys(m), LAMBDA t : Lower(t) \in Range(TERMS))
    IN first \o SelectSeq(Sorted(Range(Keys(m))),
                          LAMBDA t : t \notin Range(first))

\* the test that makes _make_tags skip a header:
\*   strip_nulls and values is None or values in ("None", "null")
SkipHeader(values, strip) ==
    \/ (strip /\ values.t = "none")
    \/ (values.t = "str" /\ values.s \in {sNone, sNull})

\* the text of one value v under header h (h already lower-cased)
TagOf(h, v) ==
    Join(Wrap(h \o <<":", " ">> \o SubNewlines(PyStr(v)),
              WrapWidth, SubsequentIndent), CRLF)

\* the tags _make_tags appends for the headers hs
RECURSIVE TagsOf(_, _, _)
TagsOf(m, hs, strip) ==
    IF hs = <<>> THEN <<>>
    ELSE
      LET values == m[Lookup(m, Head(hs))].v
          h      == ReplaceChar(Lower(Head(hs)), "_", " ")
          vs     == IF values.t = "list" THEN values.l ELSE <<values>>
          these  == IF SkipHeader(values, strip) THEN <<>>
                    ELSE [i \in 1..Len(vs) |-> TagOf(h, vs[i])]
      IN these \o TagsOf(m, Tail(hs), strip)

\* _make_tags(metadata, strip_nulls)
MakeTags(m, strip) == Join(TagsOf(m, Headers(m), strip), CRLF)

(***************************************************************************)
(* _parse_tags and _load_tag_file                                          *)
(***************************************************************************)

\* Iterating a file opened in text mode: the lines of the text, each with
\* its line end (\r\n, \r or \n) translated to \n; a last line without a
\* line end is a line too
RECURSIVE ReadLines(_)
ReadLines(text) ==
    IF text = <<>> THEN <<>>
    ELSE IF \A i \in 1..Len(text) : text[i] \notin {"\r", "\n"} THEN <<text>>
    ELSE LET e == Least({i \in 1..Len(text) : text[i] \in {"\r", "\n"}})
             n == IF text[e] = "\r" /\ e < Len(text) /\ text[e + 1] = "\n"
                  THEN e + 1 ELSE e
         IN <<Slice(text, 1, e - 1) \o <<"\n">> >>
            \o ReadLines(Slice(text, n + 1, Len(text)))

\* the fields whose folded lines _parse_tags joins without a space
NoSpaceJoin ==
    { <<"f","i","l","e","n","a","m","e">>, <<"b","a","s","e","n","a","m","e">>,
      <<"s","h","a","5","1","2">>, <<"s","o","u","r","c","e">> }

\* the generator's locals before the first line: tag_name = tag_value = None,
\* nothing yielded, nothing raised
ParseStart ==
    [name |-> <<>>, hasValue |-> FALSE, value |-> <<>>, out |-> <<>>,
     raised |-> FALSE, error |-> <<>>]

\* a variant whose message does not hold the line
InvalidTagUnnamed(line) == <<"i","n","v","a","l","i","d"," ","t","a","g">>

\* "invalid tag: {}".format(line)
InvalidTag(line) ==
    <<"i","n","v","a","l","i","d"," ","t","a","g",":"," ">> \o line

\* one iteration of _parse_tags' loop, on the line `line`
ParseLine(st, line) ==
    IF st.raised THEN st
    ELSE IF Len(line) = 0 \/ IsBlank(line) THEN st
    ELSE IF IsSpace(line[1]) /\ st.hasValue THEN
        IF st.name \in NoSpaceJoin
        THEN [st EXCEPT !.value = @ \o Strip(line, Whitespace)]
        ELSE [st EXCEPT !.value = @ \o <<" ">> \o Strip(line, Whitespace)]
    ELSE
        LET out2  == IF st.name # <<>>
                     THEN Append(st.out, <<st.name, Strip(st.value, Whitespace)>>)
                     ELSE st.out
            parts == Split(Strip(line, Whitespace), <<":">>, 1)
        IN IF ~Contains(line, <<":">>)
           THEN [st EXCEPT !.out = out2, !.raised = TRUE,
                           !.error = InvalidTag(line)]
           ELSE [st EXCEPT !.out = out2,
                           !.name = ReplaceChar(
                                      Lower(Strip(parts[1], Whitespace)),
                                      " ", "_"),
                           !.hasValue = TRUE,
                           !.value = parts[2]]

RECURSIVE ParseLines(_, _)
ParseLines(st, lines) ==
    IF lines = <<>> THEN st ELSE ParseLines(ParseLine(st, Head(lines)), Tail(lines))

\* _parse_tags(tag_file): the (name, value) pairs it yields, and whether it
\* raised BagValidationError
ParseTags(text) ==
    LET st == ParseLines(ParseStart, ReadLines(text))
    IN IF st.raised \/ st.name = <<>> THEN st
       ELSE [st EXCEPT !.out = Append(@, <<st.name, Strip(st.value, Whitespace)>>)]

\* name in tags
HasKey(d, name) == \E i \in 1..Len(d) : d[i].k = name

\* a variant that joins the values of a repeated field into one string
StoreTagJoined(d, name, value) ==
    LET v == IF value \in {sNone, sNull} THEN NoneV ELSE StrV(value)
    IN IF ~HasKey(d, name) THEN Append(d, [k |-> name, v |-> v])
       ELSE [d EXCEPT ![Lookup(d, name)].v = StrV(PyStr(@) \o <<" ">> \o PyStr(v))]

\* the body of _load_tag_file's loop for one yielded pair
StoreTag(d, name, value) ==
    LET v == IF value \in {sNone, sNull} THEN NoneV ELSE StrV(value)
    IN IF ~HasKey(d, name) THEN Append(d, [k |-> name, v |-> v])
       ELSE LET i == Lookup(d, name)
            IN IF d[i].v.t # "list"
               THEN [d EXCEPT ![i].v = ListV(<<d[i].v, v>>)]
               ELSE [d EXCEPT ![i].v = ListV(Append(d[i].v.l, v))]

RECURSIVE StoreTags(_, _)
StoreTags(d, pairs) ==
    IF pairs = <<>> THEN d
    ELSE StoreTags(StoreTag(d, Head(pairs)[1], Head(pairs)[2]), Tail(pairs))

\* _load_tag_file: the dict it returns, or the BagValidationError that
\* leaves it without a result
LoadTagFile(text) ==
    LET p == ParseTags(text)
    IN IF p.raised THEN [raised |-> TRUE, error |-> p.error, dict |-> <<>>]
       ELSE [raised |-> FALSE, error |-> <<>>, dict |-> StoreTags(<<>>, p.out)]

(***************************************************************************)
(* The filename identity of a File: get_uuid, get_filename_parts, tag,     *)
(* and the name rename composes                                            *)
(***************************************************************************)

\* Python's None where an attribute holds a str or None: a value that is no
\* string of characters
None == <<"<None>">>

\* the truth value of a str-or-None: None and '' are false
Truthy(x) == x # None /\ x # <<>>

\* the character class [0-F] of RE_UUID under re.I: the code points from
\* '0' to 'F', in either case
UuidClass ==
    LET inRange(x) == Ord("0") <= Ord(x) /\ Ord(x) <= Ord("F")
    IN {c \in {CharOrder[i] : i \in 1..Len(CharOrder)} :
          inRange(c) \/ inRange(UpperChar(c)) \/ inRange(LowerChar(c))}

InUuidClass(c) == c \in UuidClass

\* the lengths of the groups of RE_UUID, which '-' separates
UuidGroups == <<8, 4, 4, 4, 12>>

\* the offsets (from 0) of the '-' of RE_UUID, and the length of a match
UuidHyphens == {8, 13, 18, 23}
UuidLen == 36

\* whether RE_UUID matches s at position i
UuidMatchAt(s, i) ==
    /\ i >= 1
    /\ i + UuidLen - 1 <= Len(s)
    /\ \A k \in 0..(UuidLen - 1) :
          IF k \in UuidHyphens THEN s[i + k] = "-" ELSE InUuidClass(s[i + k])

\* re.findall(RE_UUID, s): the matches, left to right, none overlapping an
\* earlier one
RECURSIVE FindAllUuid(_, _)
FindAllUuid(s, from) ==
    LET at == {i \in from..Len(s) : UuidMatchAt(s, i)}
    IN IF at = {} THEN <<>>
       ELSE <<SubSeq(s, Least(at), Least(at) + UuidLen - 1)>>
            \o FindAllUuid(s, Least(at) + UuidLen)

\* File.get_uuid, given the uuid _generate_uuid would return: the File
\* after the call (the method returns its identifier)
GetUuid(f, fresh) ==
    IF Truthy(f.identifier) THEN f
    ELSE LET found == FindAllUuid(f.filename, 1)
         IN IF found # <<>>
            THEN [f EXCEPT !.identifier = found[Len(found)]]
            ELSE [f EXCEPT !.identifier = fresh]

\* s.rfind(c): the last position of the character c, 0 if none
RFind(s, c) ==
    LET at == {i \in 1..Len(s) : s[i] = c}
    IN IF at = {} THEN 0 ELSE Greatest(at)

\* os.path.splitext(p): <<root, ext>>; the extension starts at the last dot
\* of the last path component, leading dots of the component not counting
SplitExt(p) ==
    LET sepIndex == RFind(p, "/")
        dotIndex == RFind(p, ".")
    IN IF /\ dotIndex > sepIndex
          /\ \E i \in (sepIndex + 1)..(dotIndex - 1) : p[i] # "."
       THEN <<Slice(p, 1, dotIndex - 1), Slice(p, dotIndex, Len(p))>>
       ELSE <<p, <<>> >>

\* a variant that splits at the last dot, as base.rsplit('.', 1) would
SplitBaseLast(base) ==
    IF RFind(base, ".") = 0 THEN <<base>>
    ELSE <<SubSeq(base, 1, RFind(base, ".") - 1),
           SubSeq(base, RFind(base, ".") + 1, Len(base))>>

\* base.split('.', 1): the basename and, after the first dot, the format
SplitBase(base) == Split(base, <<".">>, 1)

\* a variant that keeps the dots at the ends of the extension
PartsSetRawExt(f, base, ext, bf) ==
    [raised |-> FALSE,
     f |-> [f EXCEPT !.ext = ext,
                     !.basename = IF Len(bf) = 2 THEN bf[1] ELSE base,
                     !.format = IF Len(bf) = 2 THEN bf[2] ELSE None]]

\* the end of get_filename_parts: the attributes set from base, ext and
\* bf, the pieces of base.split('.', 1)
PartsSet(f, base, ext, bf) ==
    [raised |-> FALSE,
     f |-> [f EXCEPT !.ext = Strip(ext, {"."}),
                     !.basename = IF Len(bf) = 2 THEN bf[1] ELSE base,
                     !.format = IF Len(bf) = 2 THEN bf[2] ELSE None]]

\* get_filename_parts once the filename is split into pieces, by the
\* identifier (byId) or by os.path.splitext
PartsFrom(f, byId, pieces) ==
    IF Len(pieces) # 2 THEN [raised |-> TRUE, f |-> f]
    ELSE PartsSet(f, IF byId THEN Strip(pieces[1], {"."}) ELSE pieces[1],
                  pieces[2],
                  SplitBase(IF byId THEN Strip(pieces[1], {"."}) ELSE pieces[1]))

\* get_filename_parts, byId saying whether the identifier is in the name
PartsBy(f, byId) ==
    PartsFrom(f, byId, IF byId THEN Split(f.filename, f.identifier, -1)
                       ELSE SplitExt(f.filename))

\* File.get_filename_parts: the File after the call, or the ValueError of
\* unpacking filename.split(identifier) into two when it has more pieces
GetFilenameParts(f) ==
    PartsBy(f, Truthy(f.identifier) /\ Contains(f.filename, f.identifier))

sSRC == <<"S", "R", "C">>

\* a variant in which an identifier found in the filename comes before the
\* caller's
TagIdentifierFromName(f, _uuid, fresh) ==
    LET found == FindAllUuid(f.filename, 1)
    IN IF found # <<>> THEN [f EXCEPT !.identifier = found[Len(found)]]
       ELSE IF Truthy(_uuid) THEN [f EXCEPT !.identifier = _uuid]
       ELSE GetUuid(f, fresh)

\* the first step of tag: the caller's identifier if one is given, else
\* get_uuid
TagIdentifier(f, _uuid, fresh) ==
    IF Truthy(_uuid) THEN [f EXCEPT !.identifier = _uuid]
    ELSE GetUuid(f, fresh)

\* the end of tag: it returns the filename of the File f2
Tagged(f2) == [raised |-> FALSE, f |-> f2, ret |-> f2.filename]

\* tag once get_filename_parts gave r for the File f1: the format is SRC
\* when the name gives none
TagFormat(f1, r) ==
    IF r.raised THEN [raised |-> TRUE, f |-> f1, ret |-> None]
    ELSE Tagged(IF ~Truthy(r.f.format) THEN [r.f EXCEPT !.format = sSRC]
                ELSE r.f)

\* tag once the File f1 has its identifier
TagParts(f1) == TagFormat(f1, GetFilenameParts(f1))

\* File.tag(_uuid), given the uuid _generate_uuid would return: the File
\* after the call, what it returned, and whether it raised
Tag(f, _uuid, fresh) == TagParts(TagIdentifier(f, _uuid, fresh))

\* the name File.rename composes: the parts that are set, joined by '.'
ComposeName(f) ==
    Join(SelectSeq(<<f.basename, f.format, f.identifier, f.ext>>, Truthy),
         <<".">>)

(***************************************************************************)
(* The file system, and File.rename                                        *)
(***************************************************************************)

\* The disk is the set of paths that exist, each a file or a directory with
\* a mark that tells whose content it holds, and whether the tree can be
\* written at all (a read-only tree makes every change fail).

\* os.path.exists(p)
Exists(d, p) == p \in DOMAIN d.entries

\* os.path.isfile(p)
IsFile(d, p) == Exists(d, p) /\ d.entries[p].kind = "file"

\* os.path.dirname(p)
DirName(p) == Slice(p, 1, RFind(p, "/") - 1)

\* os.path.basename(p)
BaseName(p) == Slice(p, RFind(p, "/") + 1, Len(p))

\* os.path.join(a, b)
PathJoin(a, b) ==
    IF b # <<>> /\ b[1] = "/" THEN b
    ELSE IF a = <<>> \/ a[Len(a)] = "/" THEN a \o b
    ELSE a \o <<"/">> \o b

\* whether os.rename(src, dst) succeeds for a src that is a regular file or
\* does not exist (POSIX rename: an existing file at dst is no obstacle)
CanRename(d, src, dst) ==
    /\ ~d.readonly
    /\ IsFile(d, src)
    /\ dst # <<>>
    /\ dst[Len(dst)] # "/"
    /\ (RFind(dst, "/") > 1 =>
           (Exists(d, DirName(dst)) /\ d.entries[DirName(dst)].kind = "dir"))
    /\ ~(Exists(d, dst) /\ d.entries[dst].kind = "dir")

\* the disk after a successful os.rename(src, dst): dst holds what src held,
\* replacing what was there
Renamed(d, src, dst) ==
    [d EXCEPT !.entries =
        [q \in (DOMAIN d.entries \ {src}) \cup {dst} |->
            IF q = dst THEN d.entries[src] ELSE d.entries[q]]]

\* a variant that never takes the name for unchanged
NameNeverUnchanged(f, fn) == FALSE

\* rename's test that the composed name is the current one
NameUnchanged(f, fn) == f.filename = fn

\* a variant in which the File takes the new name although os.rename raised
AfterRenameErrorTakesName(f, fn) == [f EXCEPT !.filename = fn]

\* the File after rename's os.rename raised: the except branch logs the
\* error and leaves self.filename as it is
AfterRenameError(f, fn) == f

\* File.rename on the disk d: the File and the disk after the call, what it
\* returned, whether it called os.rename and whether that raised
Rename(f, d) ==
    LET fn == ComposeName(f)
    IN IF NameUnchanged(f, fn)
       THEN [f |-> f, disk |-> d, ret |-> f.filename, raised |-> FALSE,
             called |-> FALSE, failed |-> FALSE, log |-> "info"]
       ELSE IF ~CanRename(d, f.filename, fn)
       THEN [f |-> AfterRenameError(f, fn), disk |-> d,
             ret |-> AfterRenameError(f, fn).filename, raised |-> FALSE,
             called |-> TRUE, failed |-> TRUE, log |-> "error"]
       ELSE [f |-> [f EXCEPT !.filename = fn],
             disk |-> Renamed(d, f.filename, fn),
             ret |-> fn, raised |-> FALSE,
             called |-> TRUE, failed |-> FALSE, log |-> "none"]

(***************************************************************************)
(* File.derive                                                             *)
(***************************************************************************)

DERIV_DIR == <<"d","a","t","a","/","d","e","r","i","v">>
THUMBS_DIR == <<"t","h","u","m","b","s">>

\* str(x) inside str.format: None reads 'None'
Fmt(x) == IF x = None THEN sNone ELSE x

\* The CMD_ templates of the module that the model knows: the name
\* globals() is asked for, and whether the command runs ffmpeg
CMD_DF_MP3 == <<"C","M","D","_","D","F","_","M","P","3">>
CMD_DF_IMG_THUMB ==
    <<"C","M","D","_","D","F","_","I","M","G","_","T","H","U","M","B">>
sFfmpeg == <<"f","f","m","p","e","g">>

\* the rules cli.derive asks for
rDfImgScreenshot == <<"d","f","-","i","m","g","-","s","c","r","e","e","n","s","h","o","t">>
rDfPandocHtml == <<"d","f","-","p","a","n","d","o","c","-","h","t","m","l">>
rDfDocutilsHtml == <<"d","f","-","d","o","c","u","t","i","l","s","-","h","t","m","l">>
rDfImgMed == <<"d","f","-","i","m","g","-","m","e","d">>
rDfImgLg == <<"d","f","-","i","m","g","-","l","g">>
rPfWav == <<"p","f","-","w","a","v">>
rDfMp3 == <<"d","f","-","m","p","3">>
rDfPdfDoc == <<"d","f","-","p","d","f","-","d","o","c">>
rPfVector == <<"p","f","-","v","e","c","t","o","r">>
rDfPdfVector == <<"d","f","-","p","d","f","-","v","e","c","t","o","r">>
rDf360pVp9400k == <<"d","f","-","3","6","0","p","-","v","p","9","-","4","0","0","k">>
rDfH264 == <<"d","f","-","h","2","6","4">>
CliRules ==
    {rDfImgScreenshot, rDfPandocHtml, rDfDocutilsHtml, rDfImgMed, rDfImgLg, rPfWav,
     rDfMp3, rDfPdfDoc, rPfVector, rDfPdfVector, rDf360pVp9400k, rDfH264}

\* 'CMD_' + target.upper().replace('-', '_')
CommandName(target) ==
    <<"C","M","D","_">> \o ReplaceChar(Upper(target), "-", "_")

\* the CMD_ templates of the module that the model knows
Commands ==
    {CMD_DF_MP3, CMD_DF_IMG_THUMB} \cup {CommandName(r) : r \in CliRules}

\* those of them that run ffmpeg
FfmpegCommands ==
    {CommandName(r) : r \in {rPfWav, rDfMp3, rDf360pVp9400k, rDfH264}}

\* 'ffmpeg' in cmd, for the command formatted with the source and the
\* target: the template runs ffmpeg, or one of the two paths holds the word
UsesFfmpeg(cmd, source, target_fn) ==
    \/ cmd \in FfmpegCommands
    \/ Contains(Fmt(source), sFfmpeg)
    \/ Contains(target_fn, sFfmpeg)

\* a variant that puts the rule name into the path as it was given
TargetFnAsGiven(f, target, ext, target_dir) ==
    LET dir      == IF Truthy(target_dir) THEN target_dir ELSE DERIV_DIR
        basename == PathJoin(dir, BaseName(f.basename))
    IN Join(<<basename, target, Fmt(f.identifier), Fmt(ext)>>, <<".">>)

\* the path derive computes for its output
TargetFn(f, target, ext, target_dir) ==
    LET dir      == IF Truthy(target_dir) THEN target_dir ELSE DERIV_DIR
        basename == PathJoin(dir, BaseName(f.basename))
    IN Join(<<basename, ReplaceChar(Lower(target), "_", "-"),
              Fmt(f.identifier), Fmt(ext)>>, <<".">>)

\* a variant that keeps only a regular file
KeepsExistingFile(d, overwrite, target_fn) ==
    overwrite = FALSE /\ IsFile(d, target_fn)

\* a variant that keeps what exists whatever overwrite says
KeepsExistingAlways(d, overwrite, target_fn) == Exists(d, target_fn)

\* derive's test for returning the existing output without converting:
\*   overwrite is False and os.path.exists(target_fn)
KeepsExisting(d, overwrite, target_fn) == overwrite = FALSE /\ Exists(d, target_fn)

\* the timeout derive gives subprocess.run, in seconds
TimeoutDefault == 30
TimeoutFfmpeg == 3600

\* what the converter can leave at the target path
Effects == {"nothing", "file", "dir", "removed"}

\* the disk after the converter ran with the effect e on the target path
AfterConversion(d, target_fn, e) ==
    CASE e = "nothing" -> d
      [] e = "removed" ->
            [d EXCEPT !.entries =
                [q \in DOMAIN d.entries \ {target_fn} |-> d.entries[q]]]
      [] OTHER ->
            [d EXCEPT !.entries =
                [q \in DOMAIN d.entries \cup {target_fn} |->
                    IF q = target_fn THEN [kind |-> e, data |-> "derived"]
                    ELSE d.entries[q]]]

\* a variant that records nothing when the exit is nonzero and the output
\* is there
DeriveOutcomeSilent(d, target_fn, exit) ==
    IF exit = "timeout" THEN [ret |-> None, log |-> "error"]
    ELSE IF exit = "0" THEN [ret |-> target_fn, log |-> "none"]
    ELSE IF IsFile(d, target_fn) THEN [ret |-> target_fn, log |-> "none"]
    ELSE [ret |-> None, log |-> "error"]

\* a variant that takes anything at the target path for the output
DeriveOutcomeExists(d, target_fn, exit) ==
    IF exit = "timeout" THEN [ret |-> None, log |-> "error"]
    ELSE IF exit = "0" THEN [ret |-> target_fn, log |-> "none"]
    ELSE IF Exists(d, target_fn) THEN [ret |-> target_fn, log |-> "warning"]
    ELSE [ret |-> None, log |-> "error"]

\* what derive returns and logs once subprocess.run is over: exit is
\* "timeout" when run raised, else the return code, "0" or "1"
DeriveOutcome(d, target_fn, exit) ==
    IF exit = "timeout" THEN [ret |-> None, log |-> "error"]
    ELSE IF exit = "0" THEN [ret |-> target_fn, log |-> "none"]
    ELSE IF IsFile(d, target_fn) THEN [ret |-> target_fn, log |-> "warning"]
    ELSE [ret |-> None, log |-> "error"]

\* File.derive(target, ext, frame, overwrite, target_dir) on the disk d,
\* where the converter, if run, ends with `exit` and the effect e
Derive(f, d, target, ext, overwrite, target_dir, exit, e) ==
    LET target_fn == TargetFn(f, target, ext, target_dir)
        cmd       == CommandName(target)
        d2        == AfterConversion(d, target_fn, e)
        out       == DeriveOutcome(d2, target_fn, exit)
        quiet     == [disk |-> d, raised |-> FALSE, invoked |-> FALSE,
                      timeout |-> 0]
    IN IF ~Truthy(f.basename)
       THEN quiet @@ [ret |-> None, target_fn |-> None, log |-> "error"]
       ELSE IF KeepsExisting(d, overwrite, target_fn)
       THEN quiet @@ [ret |-> target_fn, target_fn |-> target_fn, log |-> "none"]
       ELSE IF cmd \notin Commands     \* globals()[...] raises KeyError
       THEN [quiet EXCEPT !.raised = TRUE]
            @@ [ret |-> None, target_fn |-> target_fn, log |-> "none"]
       ELSE [disk |-> d2, raised |-> FALSE, invoked |-> TRUE,
             timeout |-> IF UsesFfmpeg(cmd, f.filename, target_fn) THEN TimeoutFfmpeg ELSE TimeoutDefault,
             ret |-> out.ret, target_fn |-> target_fn, log |-> out.log]

(***************************************************************************)
(* Values shared by the specifications                                     *)
(***************************************************************************)

\* File(filename): every other attribute is None
NewFile(filename) ==
    [filename |-> filename, identifier |-> None, basename |-> None,
     format |-> None, ext |-> None]

NoFile == NewFile(None)
NoDisk == [entries |-> << >>, readonly |-> FALSE]
NoCall == [op |-> "none"]
NoTags == [raised |-> FALSE, error |-> <<>>, dict |-> <<>>]

\* all sequences of at most n elements of S
SeqsUpTo(S, n) == UNION {[1..k -> S] : k \in 0..n}

\* the concatenation of a sequence of strings
Concat(parts) == Join(parts, <<>>)

(***************************************************************************)
(* SpecTags: a mapping is written with _make_tags and read back with       *)
(* _load_tag_file                                                          *)
(***************************************************************************)

MaxFields == 3   \* fields of a mapping with plain values
MaxWords == 2    \* words of a text value
MaxList == 2     \* values of a list-valued field

kTitle == <<"t","i","t","l","e">>
kNote == <<"n","o","t","e">>
kSource == <<"s","o","u","r","c","e">>
kFilename == <<"f","i","l","e","n","a","m","e">>
kExt == <<"e","x","t">>

\* field names: terms of TERMS, and attributes of a File that are not
TagKeys == {kTitle, kNote, kSource, kFilename, kExt}

\* words: short ones, the null token, one that fits a line with another
\* word but not with two, one too long for any line, and the empty word
\* (joined with spaces it gives leading, trailing and double spaces)
TagWords == {<<>>, <<"x">>, <<"y">>, sNone, Rep("a", 40), Rep("b", 66)}

\* text values: up to MaxWords words joined by single spaces
TagTexts == {Join(ws, <<" ">>) : ws \in SeqsUpTo(TagWords, MaxWords)}

\* list values: up to MaxList short strings
TagLists ==
    {ListV([i \in 1..Len(l) |-> StrV(l[i])]) :
        l \in SeqsUpTo({<<"x">>, <<"y">>, sNone}, MaxList)}

RichValues == {NoneV} \cup {StrV(t) : t \in TagTexts} \cup TagLists
PlainValues == {NoneV, StrV(<<"x">>), ListV(<<StrV(<<"x">>), StrV(<<"y">>)>>)}

\* the mappings written: one field with any value, or up to MaxFields
\* fields, in any key order, with plain values
TagInputs ==
    {<<[k |-> k, v |-> v]>> : k \in TagKeys, v \in RichValues}
    \cup {m \in SeqsUpTo([k : TagKeys, v : PlainValues], MaxFields) :
            \A i, j \in 1..Len(m) : i # j => m[i].k # m[j].k}

InitTags ==
    /\ pc = "start"
    /\ metadata \in TagInputs
    /\ strip_nulls \in BOOLEAN
    /\ tagText = <<>>
    /\ tags = NoTags
    /\ file = NoFile
    /\ disk = NoDisk
    /\ call = NoCall

\* File.save / Item.save: the text _make_tags returns is the file's content
EncodeTags ==
    /\ pc = "start"
    /\ pc' = "encoded"
    /\ tagText' = MakeTags(metadata, strip_nulls)
    /\ UNCHANGED <<metadata, strip_nulls, tags, file, disk, call>>

\* _load_tag_file on the file written
DecodeTags ==
    /\ pc = "encoded"
    /\ pc' = "decoded"
    /\ tags' = LoadTagFile(tagText)
    /\ UNCHANGED <<metadata, strip_nulls, tagText, file, disk, call>>

NextTags == EncodeTags \/ DecodeTags

SpecTags == InitTags /\ [][NextTags]_vars

\* the value a mapping holds for the key k
ValueOf(m, k) == m[Lookup(m, k)].v

\* two mappings with the same fields and, for each field, the same values
\* in the same order
SameMapping(a, b) ==
    /\ Range(Keys(a)) = Range(Keys(b))
    /\ \A k \in Range(Keys(a)) : ValueOf(a, k) = ValueOf(b, k)

\* every field holds a string or a list of strings
StringValued(m) == \A i \in 1..Len(m) : m[i].v.t \in {"str", "list"}

\* C1: for a mapping whose fields hold strings or lists of strings (no
\* control characters), reading back the text _make_tags wrote gives a
\* mapping with the same fields and the same values in the same order.
C1_TagRoundTrip ==
    (pc = "decoded" /\ StringValued(metadata))
        => (~tags.raised /\ SameMapping(tags.dict, metadata))

(***************************************************************************)
(* SpecNames: the filename identity on names and components of every       *)
(* shape: tag, and the two round trips between a name and its components   *)
(***************************************************************************)

MaxSegs == 4      \* segments of a filename
MaxPartLen == 2   \* segments of a basename

\* two identifiers, one in upper case, and a string that is no UUID but
\* that RE_UUID's class [0-F] accepts
U1 == Rep("a", 8) \o <<"-">> \o Rep("a", 4) \o <<"-">> \o Rep("a", 4)
        \o <<"-">> \o Rep("a", 4) \o <<"-">> \o Rep("a", 12)
U2 == Rep("B", 8) \o <<"-">> \o Rep("0", 4) \o <<"-">> \o Rep("4", 4)
        \o <<"-">> \o Rep("9", 4) \o <<"-">> \o Rep("B", 12)
PseudoUuid == Rep("@", 8) \o <<"-">> \o Rep(":", 4) \o <<"-">> \o Rep(";", 4)
        \o <<"-">> \o Rep("<", 4) \o <<"-">> \o Rep("?", 12)

\* what _generate_uuid returns: a version-4 uuid that is in no name
FreshUuids ==
    { Rep("f", 8) \o <<"-">> \o Rep("f", 4) \o <<"-", "4">> \o Rep("f", 3)
        \o <<"-", "8">> \o Rep("f", 3) \o <<"-">> \o Rep("f", 12) }

NameSegs == {<<"a">>, <<".">>, U1, U2, PseudoUuid}

\* the shapes of the names tag's examples use: several dots and no
\* identifier; a format, the identifier and an extension with a dot; a
\* hidden file in a directory
DocNames ==
    {<<"a", ".", "a", ".", "a", ".", "a">>,
     <<"a", ".", "a", ".">> \o U1 \o <<".", "a", ".", "a">>,
     <<"d", "/", ".", "a">>}

\* the filenames: up to MaxSegs segments, and those of the examples
Names == {Concat(segs) : segs \in SeqsUpTo(NameSegs, MaxSegs)} \cup DocNames

\* basenames: one to MaxPartLen segments
PartStrings ==
    {Concat(segs) : segs \in SeqsUpTo({<<"a">>, <<".">>, <<"/">>}, MaxPartLen)}
        \ {<<>>}

\* extensions: plain, with an inner dot (as tar.gz), with a dot or a slash
\* at an end, and one that repeats the identifier
PartExts ==
    {<<"a">>, <<"a", ".", "a">>, <<".", "a">>, <<"a", ".">>, <<"a", "/", "a">>,
     <<"a", "/">>, U1}

\* format tags, absent or present
PartFormats == {None, <<"a">>, <<"a", ".">>, <<"a", "/">>, <<"a", ".", "a">>}

\* the components a caller sets before rename
Components ==
    {[filename |-> None, identifier |-> i, basename |-> b, format |-> f,
      ext |-> e] :
        i \in {None, U1}, b \in PartStrings, f \in PartFormats,
        e \in PartExts}

InitNames ==
    /\ \/ pc = "name" /\ file \in {NewFile(n) : n \in Names}
       \/ pc = "parts" /\ file \in Components
    /\ call = NoCall
    /\ disk = NoDisk
    /\ metadata = <<>>
    /\ strip_nulls = FALSE
    /\ tagText = <<>>
    /\ tags = NoTags

\* f.tag(_uuid) on a new File, and f.tag() on one tagged before
TagName(u) ==
    /\ pc = "name" \/ (pc = "tagged" /\ u = None)
    /\ \E fresh \in FreshUuids :
         LET r == Tag(file, u, fresh)
         IN /\ file' = r.f
            /\ call' = [op |-> "tag", uuid |-> u, fresh |-> fresh,
                        before |-> file, raised |-> r.raised, ret |-> r.ret]
    /\ pc' = IF pc = "name" THEN "tagged" ELSE "retagged"
    /\ UNCHANGED <<metadata, strip_nulls, tagText, tags, disk>>

\* a filename is decomposed, with the identifier found in it if there is
\* one, and the components are joined again as rename joins them
Reencode ==
    /\ pc = "name"
    /\ LET found == FindAllUuid(file.filename, 1)
           f1    == IF found # <<>>
                    THEN [file EXCEPT !.identifier = found[Len(found)]]
                    ELSE file
           r     == GetFilenameParts(f1)
       IN /\ file' = r.f
          /\ call' = [op |-> "reencode", before |-> file, raised |-> r.raised,
                      ret |-> IF r.raised THEN None ELSE ComposeName(r.f)]
    /\ pc' = "reencoded"
    /\ UNCHANGED <<metadata, strip_nulls, tagText, tags, disk>>

\* components are joined as rename joins them, the File takes the name
\* (as it does when the rename succeeds), and the name is decomposed
ComposeDecompose ==
    /\ pc = "parts"
    /\ LET fn == ComposeName(file)
           r  == GetFilenameParts([file EXCEPT !.filename = fn])
       IN /\ file' = r.f
          /\ call' = [op |-> "roundtrip", before |-> file, raised |-> r.raised,
                      ret |-> fn]
    /\ pc' = "decomposed"
    /\ UNCHANGED <<metadata, strip_nulls, tagText, tags, disk>>

NextNames ==
    \/ \E u \in {None, U1, U2} : TagName(u)
    \/ Reencode
    \/ ComposeDecompose

SpecNames == InitNames /\ [][NextNames]_vars

\* the positions at which t occurs in s
Occurrences(s, t) == {i \in 1..Len(s) : OccursAt(s, t, i)}

\* components that a joined name can give back: a basename without '.'
\* that does not end with '/'; a format, if any, without '/' that does not
\* end with '.'; an extension that neither starts nor ends with '.'; with
\* no identifier, an extension without '.' and without '/'; with one, the
\* identifier nowhere else in the joined name
Decomposable(c) ==
    /\ ~Contains(c.basename, <<".">>)
    /\ c.basename[Len(c.basename)] # "/"
    /\ c.format # None =>
          /\ c.format # <<>>
          /\ c.format[Len(c.format)] # "."
          /\ ~Contains(c.format, <<"/">>)
    /\ c.ext[1] # "."
    /\ c.ext[Len(c.ext)] # "."
    /\ IF c.identifier = None
       THEN ~Contains(c.ext, <<".">>) /\ ~Contains(c.ext, <<"/">>)
       ELSE Cardinality(Occurrences(ComposeName(c), c.identifier)) = 1

\* the decomposition gave back the basename, the format and the extension
\* that were joined
GivesBack(c) ==
    /\ ~call.raised
    /\ file.basename = c.basename
    /\ file.format = c.format
    /\ file.ext = c.ext

\* C2 as stated: for all components with a non-empty basename and a
\* non-empty extension, joining them as rename does and decomposing the
\* name with get_filename_parts gives back basename, format and extension.
C2_AnyComponents == pc = "decomposed" => GivesBack(call.before)

\* C2, amended: the round trip holds for the components that are
\* Decomposable: a basename without '.', an extension that has inner dots
\* only when the identifier is present, and so on.
C2_RoundTrip ==
    (pc = "decomposed" /\ Decomposable(call.before)) => GivesBack(call.before)

\* C2's case: an extension with an inner dot after an identifier and a
\* format comes back whole
C2_Witness ==
    /\ pc = "decomposed"
    /\ Decomposable(call.before)
    /\ call.before.identifier = U1
    /\ call.before.format = <<"a", ".", "a">>
    /\ call.before.ext = <<"a", ".", "a">>
    /\ file.ext = <<"a", ".", "a">>

\* C3: a filename that has a format segment is reproduced byte for byte
\* when it is decomposed (with the identifier found in it, if any) and
\* its components are joined again as rename joins them.
C3_Reencode ==
    (pc = "reencoded" /\ ~call.raised /\ Truthy(file.basename)
                      /\ Truthy(file.format))
        => call.ret = call.before.filename

\* the characters of a hexadecimal digit, in either case
HexDigits ==
    {"0", "1", "2", "3", "4", "5", "6", "7", "8", "9",
     "a", "b", "c", "d", "e", "f", "A", "B", "C", "D", "E", "F"}

\* the positions of s where a UUID of hexadecimal digits, 8-4-4-4-12, starts
HexUuidsAt(s) ==
    {i \in 1..(Len(s) - UuidLen + 1) :
        \A k \in 0..(UuidLen - 1) :
            IF k \in UuidHyphens THEN s[i + k] = "-" ELSE s[i + k] \in HexDigits}

\* the last substring of s that is such a UUID
LastHexUuid(s) ==
    SubSeq(s, Greatest(HexUuidsAt(s)), Greatest(HexUuidsAt(s)) + UuidLen - 1)

\* C9: tag uses the caller's identifier, or the one already set, without
\* scanning; otherwise it takes the last substring of the filename that is
\* a hexadecimal 8-4-4-4-12 UUID, and with none it generates a fresh one.
C9_Recognize ==
    (call.op = "tag" /\ ~call.raised) =>
        file.identifier =
            IF Truthy(call.uuid) THEN call.uuid
            ELSE IF Truthy(call.before.identifier) THEN call.before.identifier
            ELSE IF HexUuidsAt(file.filename) # {} THEN LastHexUuid(file.filename)
            ELSE call.fresh

\* the filename holds an identifier that is not the caller's
OtherIdInName ==
    /\ call.op = "tag"
    /\ Truthy(call.uuid)
    /\ HexUuidsAt(call.before.filename) # {}
    /\ LastHexUuid(call.before.filename) # call.uuid

\* C10 as stated: when the filename holds an identifier distinct from the
\* caller's, tag does not fail and the filename wins: the File's
\* identifier is one that is in the filename.
C10_FilenameWins ==
    OtherIdInName =>
        /\ ~call.raised
        /\ Contains(call.before.filename, file.identifier)
        /\ file.identifier # call.uuid

\* C10, amended: the caller wins. The File's identifier is the caller's,
\* and tag fails only when the caller's identifier is itself in the
\* filename more than once (filename.split(identifier) has more than two
\* pieces).
C10_CallerWins ==
    OtherIdInName =>
        /\ file.identifier = call.uuid
        /\ call.raised <=> Len(Split(call.before.filename, call.uuid, -1)) > 2

\* C10's case: the name holds U1, the caller gives U2, and tag returns
C10_Witness ==
    /\ OtherIdInName
    /\ ~call.raised
    /\ call.uuid = U2
    /\ LastHexUuid(call.before.filename) = U1
    /\ file.identifier = U2

(***************************************************************************)
(* SpecRename: a File is tagged, its basename is set, and it is renamed,   *)
(* on a disk where the rename can fail                                     *)
(***************************************************************************)

MaxOps == 3   \* operations on the File

nPlain == <<"a", ".", "t">>
nBare == <<"a">>
nInDir == <<"d", "/", "a", ".", "t">>
nTagged == <<"a", ".">> \o sSRC \o <<".">> \o U1 \o <<".", "t">>
RenameNames == {nPlain, nBare, nInDir, nTagged}

dDir == <<"d">>

\* the uuid _generate_uuid returns in this specification
Fresh == CHOOSE u \in FreshUuids : TRUE

\* the name the File gets when it is tagged and renamed
TaggedName(n) == ComposeName(Tag(NewFile(n), None, Fresh).f)

\* the disk at the start: the directory d; the file itself, unless it is
\* missing; another file under the name the tagged file would take, if
\* occupied; the tree read-only or not
RenameDisk(n, present, occupied, readonly) ==
    LET paths == {dDir} \cup (IF present THEN {n} ELSE {})
                        \cup (IF occupied THEN {TaggedName(n)} ELSE {})
    IN [entries |->
            [q \in paths |->
                IF q = dDir THEN [kind |-> "dir", data |-> "none"]
                ELSE IF q = n /\ present THEN [kind |-> "file", data |-> "source"]
                ELSE [kind |-> "file", data |-> "other"]],
        readonly |-> readonly]

\* what the next operation remembers of the last one
Last == [op |-> call.op, ret |-> call.ret, called |-> call.called,
         failed |-> call.failed]

InitRename ==
    /\ pc = "loaded"
    /\ \E n \in RenameNames, present, occupied, readonly \in BOOLEAN :
          /\ file = NewFile(n)
          /\ disk = RenameDisk(n, present, occupied, readonly)
    /\ call = [op |-> "none", n |-> 0, ret |-> None, called |-> FALSE,
               failed |-> FALSE]
    /\ metadata = <<>>
    /\ strip_nulls = FALSE
    /\ tagText = <<>>
    /\ tags = NoTags

\* f.tag(_uuid)
TagFile(u) ==
    /\ call.n < MaxOps
    /\ LET r == Tag(file, u, Fresh)
       IN /\ file' = r.f
          /\ call' = [op |-> "tag", n |-> call.n + 1, ret |-> r.ret,
                      raised |-> r.raised, called |-> FALSE, failed |-> FALSE]
    /\ pc' = "tagged"
    /\ UNCHANGED <<metadata, strip_nulls, tagText, tags, disk>>

\* f.basename = b
SetBasename(b) ==
    /\ call.n < MaxOps
    /\ file' = [file EXCEPT !.basename = b]
    /\ call' = [op |-> "set", n |-> call.n + 1, ret |-> None,
                called |-> FALSE, failed |-> FALSE]
    /\ pc' = "set"
    /\ UNCHANGED <<metadata, strip_nulls, tagText, tags, disk>>

\* f.rename()
RenameFile ==
    /\ call.n < MaxOps
    /\ LET r == Rename(file, disk)
       IN /\ file' = r.f
          /\ disk' = r.disk
          /\ call' = [op |-> "rename", n |-> call.n + 1, ret |-> r.ret,
                      raised |-> r.raised, called |-> r.called,
                      failed |-> r.failed, before |-> file,
                      diskBefore |-> disk, last |-> Last]
    /\ pc' = "renamed"
    /\ UNCHANGED <<metadata, strip_nulls, tagText, tags>>

NextRename ==
    \/ \E u \in {None, U2} : TagFile(u)
    \/ \E b \in {<<"b">>, dDir, <<"x", "/", "b">>} : SetBasename(b)
    \/ RenameFile

SpecRename == InitRename /\ [][NextRename]_vars

\* C7: two rename calls in a row, the components unchanged between them,
\* return the same filename, and the second leaves the disk as it was;
\* and a rename whose composed name is the current filename does not call
\* os.rename and leaves the disk as it was.
C7_RenameIdempotent ==
    call.op = "rename" =>
        /\ call.last.op = "rename" =>
              (call.ret = call.last.ret /\ disk = call.diskBefore)
        /\ ComposeName(call.before) = call.before.filename =>
              (~call.called /\ disk = call.diskBefore /\ file = call.before)

\* C7's case: the first call renamed the file on disk, the second, right
\* after it, returned the same name without calling os.rename
C7_Witness ==
    /\ call.op = "rename"
    /\ call.last.op = "rename"
    /\ call.last.called
    /\ ~call.last.failed
    /\ ~call.called
    /\ call.ret = call.last.ret
    /\ Exists(disk, call.ret)

\* C8: when the os.rename of File.rename fails, no exception reaches the
\* caller, the File's filename is still the old name, and rename returns
\* the old name.
C8_RenameFailure ==
    (call.op = "rename" /\ call.failed) =>
        /\ ~call.raised
        /\ file.filename = call.before.filename
        /\ call.ret = call.before.filename
        /\ disk = call.diskBefore

\* C8's case: the file is there and has a new name to take, and the
\* rename fails on the read-only tree
C8_Witness ==
    /\ call.op = "rename"
    /\ call.failed
    /\ disk.readonly
    /\ IsFile(disk, file.filename)
    /\ ComposeName(file) # file.filename
    /\ Truthy(file.identifier)
    /\ call.ret = file.filename

(***************************************************************************)
(* SpecDerive: derive is called on a File, the converter ending in every   *)
(* way it can                                                              *)
(***************************************************************************)

MaxDerives == 2   \* derive calls on the File

nMedia == <<"d", "/", "a", ".">> \o sSRC \o <<".">> \o U1 \o <<".", "t">>

\* the Files derive is called on: a tagged one in a directory, and one
\* that was never tagged (its basename is None)
DeriveFiles == {Tag(NewFile(nMedia), None, Fresh).f, NewFile(nPlain)}

sMp3 == <<"m","p","3">>
sPng == <<"p","n","g">>

\* the rule, the extension and the directory of a call: the audio rule as
\* the derive command calls it, whose command runs ffmpeg; the thumbnail
\* rule as thumbs calls it, whose command does not; and a rule the module
\* has no command for
DeriveArgs ==
    {[target |-> <<"d","f","-","m","p","3">>, ext |-> sMp3, target_dir |-> None],
     [target |-> <<"D","F","_","I","M","G","_","T","H","U","M","B">>,
      ext |-> sPng, target_dir |-> THUMBS_DIR],
     [target |-> <<"x">>, ext |-> sPng, target_dir |-> None]}

\* how subprocess.run ends: the return code 0, a return code that is not
\* 0, or the exception of a timeout
Exits == {"0", "1", "timeout"}

\* the disk at the start: the source file
DeriveDisk(f) ==
    [entries |-> [q \in {f.filename} |-> [kind |-> "file", data |-> "source"]],
     readonly |-> FALSE]

\* what the next call remembers of the last one
LastDerive == [op |-> call.op, args |-> call.args, ret |-> call.ret,
               invoked |-> call.invoked, raised |-> call.raised]

NoArgs == [target |-> None, ext |-> None, overwrite |-> FALSE,
           target_dir |-> None]

InitDerive ==
    /\ pc = "loaded"
    /\ file \in DeriveFiles
    /\ disk = DeriveDisk(file)
    /\ call = [op |-> "none", n |-> 0, args |-> NoArgs, ret |-> None,
               invoked |-> FALSE, raised |-> FALSE]
    /\ metadata = <<>>
    /\ strip_nulls = FALSE
    /\ tagText = <<>>
    /\ tags = NoTags

\* f.derive(target, ext, overwrite=overwrite, target_dir=target_dir), the
\* converter, if it runs, ending with `exit` and the effect e
DeriveCall(target, ext, overwrite, target_dir, exit, e) ==
    /\ call.n < MaxDerives
    /\ LET r == Derive(file, disk, target, ext, overwrite, target_dir, exit, e)
       IN /\ disk' = r.disk
          /\ call' = [op |-> "derive", n |-> call.n + 1,
                      args |-> [target |-> target, ext |-> ext,
                                overwrite |-> overwrite,
                                target_dir |-> target_dir],
                      ret |-> r.ret, invoked |-> r.invoked,
                      raised |-> r.raised, target_fn |-> r.target_fn,
                      timeout |-> r.timeout, log |-> r.log,
                      exit |-> IF r.invoked THEN exit ELSE "none",
                      diskBefore |-> disk, last |-> LastDerive]
    /\ pc' = "derived"
    /\ UNCHANGED <<metadata, strip_nulls, tagText, tags, file>>

NextDerive ==
    \E a \in DeriveArgs, overwrite \in BOOLEAN, exit \in Exits, e \in Effects :
        DeriveCall(a.target, a.ext, overwrite, a.target_dir, exit, e)

SpecDerive == InitDerive /\ [][NextDerive]_vars

\* two derive calls in a row with the same rule, extension and directory,
\* neither with overwrite, neither raising
TwiceInARow ==
    /\ call.op = "derive"
    /\ call.last.op = "derive"
    /\ call.args = call.last.args
    /\ ~call.args.overwrite
    /\ ~call.raised
    /\ ~call.last.raised

\* C4 as stated: of two derive calls in a row for the same source, rule and
\* extension without overwrite, at most one invokes the converter, and the
\* second returns what the first returned without invoking it, whatever
\* the converter did on the first call.
C4_AnyOutcome ==
    TwiceInARow =>
        /\ ~call.invoked
        /\ call.ret = call.last.ret

\* C4, amended: the second call goes by what is on disk. When the target
\* exists after the first call, the second returns the target path without
\* invoking the converter and leaves the disk as it is: the same path as
\* the first if the first returned the target path. When the target does
\* not exist after the first call, the second invokes the converter again.
C4_Idempotent ==
    (TwiceInARow /\ Truthy(file.basename)) =>
        IF Exists(call.diskBefore, call.target_fn)
        THEN /\ ~call.invoked
             /\ call.ret = call.target_fn
             /\ disk = call.diskBefore
             /\ call.last.ret = call.target_fn => call.ret = call.last.ret
        ELSE call.invoked

\* C4's case: the first call ran the converter, which made the target, and
\* the second returned the same path without running it
C4_Witness ==
    /\ TwiceInARow
    /\ call.last.invoked
    /\ call.last.ret = call.target_fn
    /\ IsFile(call.diskBefore, call.target_fn)
    /\ ~call.invoked
    /\ call.ret = call.target_fn

\* C5: when derive has run the converter, a zero exit returns the target
\* path; a nonzero exit returns the target path if a file is at the target
\* path, and None if none is; a timeout returns None; and derive does not
\* raise.
C5_TriState ==
    (call.op = "derive" /\ call.invoked) =>
        /\ ~call.raised
        /\ call.exit = "0" => call.ret = call.target_fn
        /\ (call.exit = "1" /\ IsFile(disk, call.target_fn))
              => call.ret = call.target_fn
        /\ (call.exit = "1" /\ ~IsFile(disk, call.target_fn)) => call.ret = None
        /\ call.exit = "timeout" => call.ret = None

\* C5's case: the converter exits nonzero and leaves the target file
C5_Witness ==
    /\ call.op = "derive"
    /\ call.invoked
    /\ call.exit = "1"
    /\ ~Exists(call.diskBefore, call.target_fn)
    /\ IsFile(disk, call.target_fn)
    /\ call.ret = call.target_fn
    /\ call.log = "warning"

\* C6: for a File with a basename and a rule the module has a command
\* for: when the target path exists and overwrite is not asked for, derive
\* returns the target path and does not run the converter; when overwrite
\* is asked for, derive runs the converter, the target existing or not.
C6_Overwrite ==
    (call.op = "derive" /\ Truthy(file.basename)
        /\ CommandName(call.args.target) \in Commands) =>
        /\ (~call.args.overwrite /\ Exists(call.diskBefore, call.target_fn))
              => (~call.invoked /\ call.ret = call.target_fn
                  /\ disk = call.diskBefore)
        /\ call.args.overwrite => call.invoked

\* C6's case: the target exists and derive, asked to overwrite, runs the
\* converter
C6_Witness ==
    /\ call.op = "derive"
    /\ call.args.overwrite
    /\ Exists(call.diskBefore, call.target_fn)
    /\ call.invoked

\* the converter ran and exited nonzero, and the target is a file
SoftSuccess ==
    /\ call.op = "derive" /\ call.invoked
    /\ call.exit = "1"
    /\ IsFile(disk, call.target_fn)

\* C16: of the calls that run the converter, a warning is recorded exactly
\* for a nonzero exit that leaves the target file, and the call then
\* returns the target; an error is recorded exactly when None is returned;
\* nothing is recorded exactly for exit 0, which returns the target.  So
\* what is returned and recorded differs between the three outcomes.
C16_SoftSuccess ==
    (call.op = "derive" /\ call.invoked) =>
        /\ call.log = "warning" <=> SoftSuccess
        /\ SoftSuccess => call.ret = call.target_fn
        /\ call.log = "error" <=> call.ret = None
        /\ call.log = "none" <=> call.exit = "0"
        /\ call.exit = "0" => call.ret = call.target_fn

\* C16's case: a nonzero exit with the target file written
C16_Witness == SoftSuccess /\ call.log = "warning" /\ call.ret # None

(***************************************************************************)
(* load_file and File.save: a File and its sidecar tag file                *)
(***************************************************************************)

FILE_METADATA_DIR ==
    <<"f","i","l","e","_","m","e","t","a","d","a","t","a">>
NIL_UUID ==
    <<"0","0","0","0","0","0","0","-","0","0","0","0","-","0","0","0","0","-",
      "0","0","0","0","-","0","0","0","0","0","0","0","0","0","0","0","0">>

kIdentifier == <<"i","d","e","n","t","i","f","i","e","r">>
kBasename == <<"b","a","s","e","n","a","m","e">>
kFormat == <<"f","o","r","m","a","t">>
kSha256 == <<"s","h","a","2","5","6">>
sTxt == <<"t","x","t">>

\* os.path.join(FILE_METADATA_DIR, '{}.{}.txt'.format(identifier, format))
SidecarPath(f) ==
    PathJoin(FILE_METADATA_DIR,
             Join(<<Fmt(f.identifier), Fmt(f.format), sTxt>>, <<".">>))

\* an attribute as a value of the tag codec
AttrV(x) == IF x = None THEN NoneV ELSE StrV(x)

\* vars(self) of a File, in the order __init__ sets the attributes (of the
\* attributes that are never set in the model, sha256 stands for all)
VarsOf(f) ==
    <<[k |-> kFilename, v |-> AttrV(f.filename)],
      [k |-> kSha256, v |-> NoneV],
      [k |-> kIdentifier, v |-> AttrV(f.identifier)],
      [k |-> kBasename, v |-> AttrV(f.basename)],
      [k |-> kFormat, v |-> AttrV(f.format)],
      [k |-> kExt, v |-> AttrV(f.ext)]>>

\* File.save: the text written to the sidecar
SaveText(f) == MakeTags(VarsOf(f), TRUE)

\* the keys of a sidecar that load_file does not take over
PathKeys == {kFilename, kBasename, kFormat, kExt}

\* a decoded value as the attribute setattr stores (a str or None; the
\* model holds no File whose identifier is a list)
AttrOf(v) == CASE v.t = "none" -> None [] v.t = "str" -> v.s

\* the loop of load_file over the decoded sidecar: the keys it sets
Overlaid(dict) == SelectSeq(dict, LAMBDA e : e.k \notin PathKeys)

\* the File after the loop
Overlay(f, dict) ==
    IF HasKey(Overlaid(dict), kIdentifier)
    THEN [f EXCEPT !.identifier = AttrOf(dict[Lookup(dict, kIdentifier)].v)]
    ELSE f

\* load_file(filename) in a bag (rooted) or outside one, on the disk d where
\* a sidecar, if there is one at the path load_file looks at, holds text:
\* the File returned (absent outside a bag), whether the call raised,
\* whether a uuid was generated, and the attributes set from the sidecar;
\* here with t what _load_tag_file gives for the text, f1 the File after
\* get_uuid and r what get_filename_parts gives for it
LoadFileParts(filename, rooted, d, t, f1, r) ==
    LET read  == Truthy(r.f.format) /\ Exists(d, SidecarPath(r.f))
        quiet(ret) == [f |-> ret, raised |-> FALSE, absent |-> FALSE,
                       generated |-> FindAllUuid(filename, 1) = <<>>,
                       read |-> FALSE, attrs |-> <<>>]
    IN IF ~rooted
       THEN [quiet(NoFile) EXCEPT !.absent = TRUE, !.generated = FALSE]
       ELSE IF ~Contains(filename, f1.identifier) THEN quiet(f1)
       ELSE IF r.raised THEN [quiet(f1) EXCEPT !.raised = TRUE]
       ELSE IF ~read THEN quiet(r.f)
       ELSE IF t.raised
       THEN [quiet(r.f) EXCEPT !.raised = TRUE, !.read = TRUE]
       ELSE [quiet(Overlay(r.f, t.dict)) EXCEPT
                !.read = TRUE, !.attrs = Overlaid(t.dict)]

\* load_file after File(filename) and get_uuid gave f1
LoadFileFrom(filename, rooted, d, t, f1) ==
    LoadFileParts(filename, rooted, d, t, f1, GetFilenameParts(f1))

LoadFile(filename, rooted, d, text, fresh) ==
    LoadFileFrom(filename, rooted, d, LoadTagFile(text),
                 GetUuid(NewFile(filename), fresh))

(***************************************************************************)
(* SpecLoad: a File is tagged and renamed, its sidecar is saved or holds   *)
(* older values, and the file is loaded again from its name on disk        *)
(***************************************************************************)

LoadNames == {nPlain, nBare, nInDir, nTagged}

\* what a sidecar written before, or by hand, holds: another identifier
\* and a title; other path fields and a title; a line without a colon
StaleTexts ==
    {MakeTags(<<[k |-> kIdentifier, v |-> StrV(U2)],
                [k |-> kTitle, v |-> StrV(<<"x">>)]>>, TRUE),
     MakeTags(<<[k |-> kFilename, v |-> StrV(<<"o", ".", "o">>)],
                [k |-> kBasename, v |-> StrV(<<"o">>)],
                [k |-> kFormat, v |-> StrV(<<"o">>)],
                [k |-> kExt, v |-> StrV(<<"o">>)],
                [k |-> kTitle, v |-> StrV(<<"x">>)]>>, TRUE),
     <<"x">>}

\* the disk with a file at p
WithFile(d, p, data) ==
    [d EXCEPT !.entries =
        [q \in DOMAIN d.entries \cup {p} |->
            IF q = p THEN [kind |-> "file", data |-> data]
            ELSE d.entries[q]]]

InitLoad ==
    /\ pc = "new"
    /\ \E n \in LoadNames, present \in BOOLEAN :
          /\ file = NewFile(n)
          /\ disk = RenameDisk(n, present, FALSE, FALSE)
    /\ call = [op |-> "none"]
    /\ metadata = <<>>
    /\ strip_nulls = TRUE
    /\ tagText = <<>>
    /\ tags = NoTags

\* f.identifier = u, if one is given; f.tag(); f.rename()
TagRename(u) ==
    /\ pc = "new"
    /\ LET f0 == IF u = None THEN file ELSE [file EXCEPT !.identifier = u]
           t  == Tag(f0, None, Fresh)
           r  == Rename(t.f, disk)
       IN IF t.raised
          THEN /\ file' = t.f
               /\ disk' = disk
               /\ call' = [op |-> "tag", raised |-> TRUE, failed |-> FALSE]
          ELSE /\ file' = r.f
               /\ disk' = r.disk
               /\ call' = [op |-> "rename", raised |-> FALSE,
                           failed |-> r.failed]
    /\ pc' = "renamed"
    /\ UNCHANGED <<metadata, strip_nulls, tagText, tags>>

\* f.save()
SaveFile ==
    /\ pc = "renamed"
    /\ tagText' = SaveText(file)
    /\ metadata' = VarsOf(file)
    /\ disk' = WithFile(disk, SidecarPath(file), "tags")
    /\ call' = [op |-> "save"]
    /\ pc' = "saved"
    /\ UNCHANGED <<strip_nulls, tags, file>>

\* the sidecar of the File holds a text that was not saved from it
StaleSidecar(text) ==
    /\ pc = "renamed"
    /\ tagText' = text
    /\ disk' = WithFile(disk, SidecarPath(file), "tags")
    /\ call' = [op |-> "stale"]
    /\ pc' = "saved"
    /\ UNCHANGED <<metadata, strip_nulls, tags, file>>

\* the state after load_file gave r, t being what _load_tag_file gives for
\* the sidecar
LoadedAs(rooted, r, t) ==
    /\ call' = [op |-> "load", rooted |-> rooted, loaded |-> r.f,
                raised |-> r.raised, absent |-> r.absent,
                generated |-> r.generated, read |-> r.read,
                attrs |-> r.attrs]
    /\ tags' = IF r.read THEN t ELSE tags
    /\ pc' = "loaded"
    /\ UNCHANGED <<metadata, strip_nulls, tagText, file, disk>>

\* load_file(f.filename): the File it returns is in call.loaded
LoadAgain(rooted) ==
    /\ pc \in {"new", "renamed", "saved"}
    /\ LoadedAs(rooted, LoadFile(file.filename, rooted, disk, tagText, Fresh),
                LoadTagFile(tagText))

NextLoad ==
    \/ \E u \in {None, U2, NIL_UUID} : TagRename(u)
    \/ SaveFile
    \/ \E text \in StaleTexts : StaleSidecar(text)
    \/ \E rooted \in BOOLEAN : LoadAgain(rooted)

SpecLoad == InitLoad /\ [][NextLoad]_vars

\* the File was tagged with an identifier and renamed: its name on disk is
\* the one its components compose
TaggedAndRenamed ==
    /\ Truthy(file.identifier)
    /\ Truthy(file.format)
    /\ ComposeName(file) = file.filename
    /\ IsFile(disk, file.filename)

\* load_file returned a File
Loaded == call.op = "load" /\ call.rooted /\ ~call.raised

\* C11: once a file has been tagged with an identifier and renamed, a
\* load_file of its name on disk gives that identifier, and generates none
\* when the name holds the File's identifier.
C11_IdentityPersists ==
    (Loaded /\ TaggedAndRenamed) =>
        /\ call.loaded.identifier = file.identifier
        /\ Contains(file.filename, file.identifier) => ~call.generated

\* what load_file derives from the path alone, no sidecar being there
FromPath(filename) == LoadFile(filename, TRUE, NoDisk, <<>>, Fresh).f

\* C12: after load_file the File's filename, identifier, basename, format
\* and ext are those derived from the path, whatever the sidecar stores
\* for them; only other fields of the sidecar are set on the File.
C12_PathWins ==
    Loaded =>
        /\ call.loaded = FromPath(file.filename)
        /\ \A i \in 1..Len(call.attrs) : call.attrs[i].k \notin PathKeys

(***************************************************************************)
(* SpecParse: _load_tag_file reads tag files of every shape                *)
(***************************************************************************)

MaxLines == 3   \* lines of a tag file

\* lines: a field, the same field again, the same field with the null
\* token, another field, an indented line, a line without a colon, and an
\* empty line
RawLines ==
    {<<"a", ":", " ", "x">>, <<"a", ":", " ", "y">>,
     <<"a", ":", " ">> \o sNone, <<"b", ":", " ", "x">>,
     <<" ", "z">>, <<"q">>, <<>>}

\* tag files: up to MaxLines lines, each ended by a newline
RawTexts ==
    {Concat([i \in 1..Len(ls) |-> ls[i] \o <<"\n">>]) :
        ls \in SeqsUpTo(RawLines, MaxLines)}

InitParse ==
    /\ pc = "written"
    /\ tagText \in RawTexts
    /\ tags = NoTags
    /\ metadata = <<>>
    /\ strip_nulls = FALSE
    /\ file = NoFile
    /\ disk = NoDisk
    /\ call = NoCall

\* _load_tag_file(tag_file_name) on the file that holds tagText
LoadTags ==
    /\ pc = "written"
    /\ pc' = "parsed"
    /\ tags' = LoadTagFile(tagText)
    /\ UNCHANGED <<metadata, strip_nulls, tagText, file, disk, call>>

NextParse == LoadTags

SpecParse == InitParse /\ [][NextParse]_vars

\* the line is neither empty nor blank
NonBlank(line) == line # <<>> /\ ~IsBlank(line)

\* line i of the file is a non-blank line that continues no field: it
\* does not start with a space, or no field has started before it
StartsField(lines, i) ==
    /\ NonBlank(lines[i])
    /\ ~(IsSpace(lines[i][1]) /\ \E j \in 1..(i - 1) : NonBlank(lines[j]))

\* the lines that must hold a colon and do not
Offending(lines) ==
    {i \in 1..Len(lines) :
        StartsField(lines, i) /\ ~Contains(lines[i], <<":">>)}

\* C13: when a non-blank line that continues no field holds no ':',
\* _load_tag_file raises BagValidationError, the message holds the first
\* such line, and no mapping is returned.
C13_ParseError ==
    (pc = "parsed" /\ Offending(ReadLines(tagText)) # {}) =>
        /\ tags.raised
        /\ tags.dict = <<>>
        /\ \E i \in Offending(ReadLines(tagText)) :
              /\ \A j \in Offending(ReadLines(tagText)) : i <= j
              /\ Contains(tags.error, ReadLines(tagText)[i])

\* C13's case: a field, then a line without a colon
C13_Witness ==
    /\ pc = "parsed"
    /\ tagText = <<"a", ":", " ", "x", "\n", "q", "\n">>
    /\ tags.raised
    /\ tags.dict = <<>>
    /\ Contains(tags.error, <<"q">>)

\* the values the file gives for the field name, in the order of the file
ValuesOf(pairs, name) ==
    LET mine == SelectSeq(pairs, LAMBDA p : p[1] = name)
    IN [i \in 1..Len(mine) |->
            IF mine[i][2] \in {sNone, sNull} THEN NoneV ELSE StrV(mine[i][2])]

\* C19: a field that occurs n >= 2 times in the file is mapped to the list
\* of its n values in the order of the file, the null tokens among them as
\* None; a field that occurs once is mapped to its value.
C19_RepeatedFields ==
    (pc = "parsed" /\ ~tags.raised) =>
        \A p \in Range(ParseTags(tagText).out) :
            /\ HasKey(tags.dict, p[1])
            /\ LET vals == ValuesOf(ParseTags(tagText).out, p[1])
                   v    == tags.dict[Lookup(tags.dict, p[1])].v
               IN IF Len(vals) = 1 THEN v = vals[1] ELSE v = ListV(vals)

\* C19's case: a field three times, the null token in the middle
C19_Witness ==
    /\ pc = "parsed"
    /\ tagText = <<"a", ":", " ", "x", "\n">>
                    \o <<"a", ":", " ">> \o sNone \o <<"\n">>
                    \o <<"a", ":", " ", "y", "\n">>
    /\ tags.dict = <<[k |-> <<"a">>,
                      v |-> ListV(<<StrV(<<"x">>), NoneV, StrV(<<"y">>)>>)]>>

(***************************************************************************)
(* SpecItems: Bag.items lists the items of a bag from their tag files      *)
(***************************************************************************)

ITEM_METADATA_DIR ==
    <<"i","t","e","m","_","m","e","t","a","d","a","t","a">>
DATA_DIR == <<"d","a","t","a">>
HTML_DIR == <<"h","t","m","l">>
sHtml == <<"h","t","m","l">>

\* os.path.join(root, ITEM_METADATA_DIR, '{}.txt'.format(item_uuid)), from
\* the bag root
ItemPath(item_uuid) ==
    PathJoin(ITEM_METADATA_DIR, item_uuid \o <<".">> \o sTxt)

\* Item(identifier=item_uuid): the attributes the model follows
NewItem(item_uuid) == [identifier |-> item_uuid, title |-> NoneV]

\* "for key in tags: setattr(i, key, tags[key])"
SetItemAttrs(i, dict) ==
    [identifier |-> IF HasKey(dict, kIdentifier)
                    THEN AttrOf(dict[Lookup(dict, kIdentifier)].v)
                    ELSE i.identifier,
     title |-> IF HasKey(dict, kTitle) THEN dict[Lookup(dict, kTitle)].v
               ELSE i.title]

\* load_item once _load_tag_file gave t for the tag file of the Item i
LoadItemTags(i, t) ==
    IF t.raised THEN [raised |-> TRUE, error |-> t.error, item |-> i]
    ELSE [raised |-> FALSE, error |-> <<>>, item |-> SetItemAttrs(i, t.dict)]

\* load_item(item_uuid) called in the bag root d
LoadItem(d, item_uuid) ==
    IF ~Exists(d, ItemPath(item_uuid))
    THEN [raised |-> FALSE, error |-> <<>>, item |-> NewItem(item_uuid)]
    ELSE LoadItemTags(NewItem(item_uuid),
                      LoadTagFile(d.entries[ItemPath(item_uuid)].data))

sIndexError == <<"I","n","d","e","x","E","r","r","o","r">>

\* the loop of Bag.items over the paths g, from position k with the list
\* built so far: an exception leaves the loop and nothing is returned
RECURSIVE ItemsFrom(_, _, _, _)

\* one turn of the loop once load_item gave l
ItemsAppend(d, g, k, items_list, l) ==
    IF l.raised THEN [raised |-> TRUE, error |-> l.error, items |-> <<>>]
    ELSE ItemsFrom(d, g, k + 1, Append(items_list, l.item))

\* one turn of the loop once re.findall gave item_uuid
ItemsLoad(d, g, k, items_list, item_uuid) ==
    IF item_uuid = <<>>
    THEN [raised |-> TRUE, error |-> sIndexError, items |-> <<>>]
    ELSE ItemsAppend(d, g, k, items_list, LoadItem(d, item_uuid[1]))

ItemsFrom(d, g, k, items_list) ==
    IF k > Len(g)
    THEN [raised |-> FALSE, error |-> <<>>, items |-> items_list]
    ELSE ItemsLoad(d, g, k, items_list, FindAllUuid(g[k], 1))

\* Bag.items() called in the bag root d, the glob giving the paths g
Items(d, g) == ItemsFrom(d, g, 1, <<>>)

\* pathlib.Path(ITEM_METADATA_DIR).glob('*.txt'): the tag files in any of
\* the orders the directory can list them
Glob(d) ==
    LET S == {p \in DOMAIN d.entries :
                /\ IsFile(d, p)
                /\ DirName(p) = ITEM_METADATA_DIR
                /\ p[Len(p)] # "/"
                /\ Len(BaseName(p)) >= 4
                /\ Slice(p, Len(p) - 3, Len(p)) = <<".">> \o sTxt}
    IN {g \in [1..Cardinality(S) -> S] :
            \A i, j \in 1..Cardinality(S) : g[i] = g[j] => i = j}

\* the html page of the item u
PagePath(u) == PathJoin(HTML_DIR, u \o <<".">> \o sHtml)

\* [p.stem for p in sorted(pathlib.Path(HTML_DIR).glob('*.html'))], as a set
PubStems(d) ==
    {Slice(BaseName(p), 1, Len(BaseName(p)) - 5) :
        p \in {q \in DOMAIN d.entries :
                  /\ DirName(q) = HTML_DIR
                  /\ Len(BaseName(q)) >= 5
                  /\ Slice(q, Len(q) - 4, Len(q)) = <<".">> \o sHtml}}

\* the end of Bag.pub_items: the Items of items() that have a page
PubFilter(r, pub) ==
    [r EXCEPT !.items = SelectSeq(r.items, LAMBDA i : i.identifier \in pub)]

\* Bag.pub_items() called in the bag root d, the glob of items() giving g
PubItems(d, g) == PubFilter(Items(d, g), PubStems(d))

\* vars(self) of an Item: the attributes the model follows
ItemVars(i) ==
    <<[k |-> kIdentifier, v |-> AttrV(i.identifier)],
      [k |-> kTitle, v |-> i.title]>>

\* Item.save: the text written to the tag file of the Item
ItemSaveText(i) == MakeTags(ItemVars(i), FALSE)

\* the identifiers items are saved under: two uuids, and the identifier of
\* the sample item
ItemIds == {U1, U2, NIL_UUID}

\* the titles of the items that are saved
ItemTitles == {StrV(<<"x">>), StrV(<<"x", " ", "y">>)}

\* the items that have an html page
PageSets == {{}, {U1}, {U1, NIL_UUID}}

\* the text of an item's tag file: a title, a repeated title, and a text
\* with a line that has no colon
ItemTexts ==
    {kTitle \o <<":", " ", "x", "\n">>,
     kTitle \o <<":", " ", "x", "\n">> \o kTitle \o <<":", " ", "y", "\n">>,
     kTitle \o <<":", " ", "x", "\n", "q", "\n">>}

ItemDisks ==
    {[entries |-> [p \in {ItemPath(u) : u \in DOMAIN t}
                         \cup {PagePath(u) : u \in pages}
                         \cup {ITEM_METADATA_DIR, HTML_DIR}
                    |-> IF p \in {ITEM_METADATA_DIR, HTML_DIR}
                        THEN [kind |-> "dir", data |-> <<>>]
                        ELSE IF p \in {PagePath(u) : u \in pages}
                        THEN [kind |-> "file", data |-> <<>>]
                        ELSE [kind |-> "file",
                              data |-> t[CHOOSE u \in DOMAIN t : ItemPath(u) = p]]],
      readonly |-> FALSE] :
        t \in UNION {[ids -> ItemTexts] : ids \in SUBSET ItemIds},
        pages \in PageSets}

InitItems ==
    /\ pc = "bag"
    /\ disk \in ItemDisks
    /\ call = NoCall
    /\ metadata = <<>>
    /\ strip_nulls = FALSE
    /\ tagText = <<>>
    /\ tags = NoTags
    /\ file = NoFile

\* Item(identifier=u, title=title).save()
ItemSave(u, title) ==
    /\ pc = "bag"
    /\ pc' = "saved"
    /\ disk' = WithFile(disk, ItemPath(u),
                        ItemSaveText([identifier |-> u, title |-> title]))
    /\ call' = [op |-> "save", saved |-> <<[identifier |-> u, title |-> title]>>]
    /\ UNCHANGED <<metadata, strip_nulls, tagText, tags, file>>

\* the Item saved by the call before, if any
SavedBefore == IF pc = "saved" THEN call.saved ELSE <<>>

\* b.items()
ItemsCall ==
    /\ pc \in {"bag", "saved"}
    /\ pc' = "listed"
    /\ \E g \in Glob(disk) :
          call' = [op |-> "items", g |-> g, saved |-> SavedBefore]
                      @@ Items(disk, g)
    /\ UNCHANGED <<metadata, strip_nulls, tagText, tags, file, disk>>

\* b.pub_items()
PubItemsCall ==
    /\ pc \in {"bag", "saved"}
    /\ pc' = "published"
    /\ \E g \in Glob(disk) :
          call' = [op |-> "pub_items", g |-> g, saved |-> SavedBefore]
                      @@ PubItems(disk, g)
    /\ UNCHANGED <<metadata, strip_nulls, tagText, tags, file, disk>>

NextItems ==
    \/ \E u \in ItemIds, title \in ItemTitles : ItemSave(u, title)
    \/ ItemsCall
    \/ PubItemsCall

SpecItems == InitItems /\ [][NextItems]_vars

\* the item tag files of the bag whose names carry a uuid
Sidecars == {u \in {U1, U2} : Exists(disk, ItemPath(u))}

\* the tag file of item u does not parse
Malformed(u) == LoadTagFile(disk.entries[ItemPath(u)].data).raised

\* C14: when one of the item tag files fails to parse, Bag.items does not
\* raise and returns the Items of the well-formed tag files.
C14_ScanContinues ==
    (pc = "listed" /\ \A p \in Range(call.g) : FindAllUuid(p, 1) # <<>>
        /\ \E u \in Sidecars : Malformed(u)) =>
        /\ ~call.raised
        /\ \A u \in Sidecars :
              ~Malformed(u) =>
                  \E k \in 1..Len(call.items) : call.items[k].identifier = u

(***************************************************************************)
(* SpecCli: the derive command of the command line                         *)
(***************************************************************************)

sNoInputFile == <<"N","o"," ","i","n","p","u","t"," ","f","i","l","e">>
sSpecifyValid == <<"S","p","e","c","i","f","y"," ","a"," ","v","a","l","i","d",
                   " ","i","n","p","u","t"," ","f","i","l","e","n","a","m","e",".">>

\* check_file(fn) on the disk d, for a path that is in no directory named
\* by a uuid: the file type, or the message of sys.exit
CheckFile(d, fn) ==
    IF fn = None \/ fn = <<>> THEN [exit |-> TRUE, message |-> sNoInputFile]
    ELSE IF IsFile(d, fn) THEN [exit |-> FALSE, message |-> <<>>]
    ELSE [exit |-> TRUE, message |-> sSpecifyValid]

\* the end of update_file: f.save() after rename gave rn
UpdateSaved(rn) ==
    [status |-> "ok", message |-> <<>>,
     disk |-> WithFile(rn.disk, SidecarPath(rn.f), "tags"), f |-> rn.f]

\* update_file after load_file gave l and f.tag() gave t
UpdateTagged(d, l, t) ==
    IF l.raised \/ t.raised
    THEN [status |-> "raised", message |-> <<>>, disk |-> d, f |-> NoFile]
    ELSE UpdateSaved(Rename(t.f, d))

\* update_file after load_file gave l
UpdateLoaded(d, l) == UpdateTagged(d, l, Tag(l.f, None, Fresh))

\* update_file after check_file gave c
UpdateChecked(d, fn, c) ==
    IF c.exit
    THEN [status |-> "exit", message |-> c.message, disk |-> d, f |-> NoFile]
    ELSE UpdateLoaded(d, LoadFile(fn, TRUE, d, <<>>, Fresh))

\* update_file(fn) on the disk d, in a bag, for a file that has no sidecar
\* yet and whose format is not SRC: check_file, load_file, tag, rename,
\* save.  status is "ok", "exit" (sys.exit) or "raised".
UpdateFile(d, fn) == UpdateChecked(d, fn, CheckFile(d, fn))

sMd == <<"m","d">>
sRst == <<"r","s","t">>
ExtHtml == {<<"h","t","m","l">>, <<"h","t","m">>, <<"t","x","t">>, <<"r","s","t">>}
ExtRaster == {<<"b","m","p">>, <<"g","i","f">>, <<"j","p","g">>, <<"j","p","e","g">>, <<"p","n","g">>, <<"t","i","f">>, <<"t","i","f","f">>}
ExtAudio == {<<"m","p","3">>, <<"w","a","v">>, <<"w","m","a">>, <<"o","g","g">>}
ExtOffice == {<<"o","d","t">>, <<"o","d","p">>, <<"d","o","c">>, <<"d","o","c","x">>, <<"p","p","t">>, <<"p","p","t","x">>}
ExtVector == {<<"e","p","s">>, <<"s","v","g">>}
ExtVideo == {<<"a","v","i">>, <<"f","l","v">>, <<"m","o","v">>, <<"m","p","e","g">>, <<"m","p","4">>, <<"w","e","b","m">>, <<"o","g","v">>}

\* the derivatives cli.derive asks for, in its order, for the lowered
\* extension ext: each a rule and the extension of the output.  The tests
\* "ext in ('md')" and "ext in ('rst')" are tests for a substring.
Derivatives(ext) ==
    (IF ext \in ExtHtml THEN <<[target |-> rDfImgScreenshot, ext |-> sPng]>> ELSE <<>>)
    \o (IF Contains(sMd, ext)
        THEN <<[target |-> rDfPandocHtml, ext |-> <<"h","t","m","l">>]>> ELSE <<>>)
    \o (IF Contains(sRst, ext)
        THEN <<[target |-> rDfDocutilsHtml, ext |-> <<"h","t","m","l">>]>> ELSE <<>>)
    \o (IF ext \in ExtRaster
        THEN <<[target |-> rDfImgMed, ext |-> sPng],
               [target |-> rDfImgLg, ext |-> sPng]>> ELSE <<>>)
    \o (IF ext \in ExtAudio
        THEN <<[target |-> rPfWav, ext |-> <<"w","a","v">>],
               [target |-> rDfMp3, ext |-> sMp3]>> ELSE <<>>)
    \o (IF ext \in ExtOffice
        THEN <<[target |-> rDfPdfDoc, ext |-> <<"p","d","f">>]>> ELSE <<>>)
    \o (IF ext \in ExtVector
        THEN <<[target |-> rPfVector, ext |-> <<"s","v","g">>],
               [target |-> rDfPdfVector, ext |-> <<"p","d","f">>]>> ELSE <<>>)
    \o (IF ext \in ExtVideo
        THEN <<[target |-> rDf360pVp9400k, ext |-> <<"w","e","b","m">>],
               [target |-> rDfH264, ext |-> <<"m","p","4">>]>> ELSE <<>>)

NoRun == [status |-> "returned", message |-> <<>>, todo |-> <<>>,
          attempted |-> <<>>, ran |-> <<>>, rets |-> <<>>, updated |-> <<>>,
          disk |-> NoDisk]

RECURSIVE DeriveAll(_, _, _, _, _, _)

\* the k-th statement once derive gave r and update_file gave u for what
\* derive returned, r1 being the run with this derivative counted
DeriveUpdated(f, todo, outcomes, k, r1, r, u) ==
    IF r.raised THEN [r1 EXCEPT !.status = "raised"]
    ELSE IF u.status # "ok"
    THEN [r1 EXCEPT !.status = u.status, !.message = u.message]
    ELSE DeriveAll(f, u.disk, todo, outcomes, k + 1,
                   [r1 EXCEPT !.updated = Append(@, u.f.filename)])

\* the k-th statement once derive gave r
DeriveOne(f, todo, outcomes, k, run, r) ==
    DeriveUpdated(f, todo, outcomes, k,
                  [run EXCEPT !.attempted = Append(@, todo[k].target),
                              !.rets = Append(@, r.ret),
                              !.ran = Append(@, IF r.invoked THEN outcomes[k]
                                                ELSE <<"none", "nothing">>),
                              !.disk = r.disk],
                  r, UpdateFile(r.disk, r.ret))

\* the statements "update_file(f.derive(rule, ext))" of cli.derive from the
\* k-th on, the converter of the i-th ending as outcomes[i] says: the
\* derivatives attempted, how the converter of each ended, what derive
\* returned for each, the files updated, and how the run ended
\* ("returned", "exit" or "raised")
DeriveAll(f, d, todo, outcomes, k, run) ==
    IF k > Len(todo) THEN [run EXCEPT !.disk = d]
    ELSE DeriveOne(f, todo, outcomes, k, run,
                   Derive(f, d, todo[k].target, todo[k].ext, FALSE, None,
                          outcomes[k][1], outcomes[k][2]))

\* cli.derive once the derivatives of the File f are known
CliDeriveTodo(f, d, outcomes, todo) ==
    DeriveAll(f, d, todo, outcomes, 1, [NoRun EXCEPT !.disk = d, !.todo = todo])

\* cli.derive after load_file gave l
CliDeriveLoaded(d, outcomes, l) ==
    IF l.raised \/ l.f.ext = None     \* None has no lower()
    THEN [NoRun EXCEPT !.disk = d, !.status = "raised"]
    ELSE CliDeriveTodo(l.f, d, outcomes, Derivatives(Lower(l.f.ext)))

\* cli.derive after check_file gave c
CliDeriveChecked(d, fn, outcomes, c) ==
    IF c.exit
    THEN [NoRun EXCEPT !.disk = d, !.status = "exit", !.message = c.message]
    ELSE CliDeriveLoaded(d, outcomes, LoadFile(fn, TRUE, d, <<>>, Fresh))

\* cli.derive(fn) in a bag on the disk d
CliDerive(d, fn, outcomes) ==
    CliDeriveChecked(d, fn, outcomes, CheckFile(d, fn))

\* the files the command is given: tagged sources with extensions of several
\* kinds, and one that is not tagged
CliExts == {sMp3, <<"P","N","G">>, sRst, sMd, <<"s","v","g">>, <<"t">>}
CliNames ==
    {Join(<<<<"a">>, sSRC, U1, e>>, <<".">>) : e \in CliExts}
        \cup {<<"a", ".">> \o sMp3}

\* a bag with the file, or without it
CliDisk(n, present) ==
    [entries |->
        [q \in {FILE_METADATA_DIR, DERIV_DIR} \cup (IF present THEN {n} ELSE {}) |->
            IF q = n THEN [kind |-> "file", data |-> "source"]
            ELSE [kind |-> "dir", data |-> "none"]],
     readonly |-> FALSE]

InitCli ==
    /\ pc = "shell"
    /\ \E n \in CliNames, present \in BOOLEAN :
          /\ file = NewFile(n)
          /\ disk = CliDisk(n, present)
    /\ call = NoCall
    /\ metadata = <<>>
    /\ strip_nulls = TRUE
    /\ tagText = <<>>
    /\ tags = NoTags

\* the state after cli.derive ended as r says
CliEnded(r) ==
    /\ call' = [op |-> "cli.derive", status |-> r.status,
                message |-> r.message, todo |-> r.todo,
                attempted |-> r.attempted, ran |-> r.ran,
                rets |-> r.rets, updated |-> r.updated]
    /\ disk' = r.disk
    /\ pc' = "ended"
    /\ UNCHANGED <<metadata, strip_nulls, tagText, tags, file>>

\* "odea derive <fn>"
CliDeriveCall(outcomes) ==
    pc = "shell" /\ CliEnded(CliDerive(disk, file.filename, outcomes))

NextCli == \E outcomes \in [1..2 -> Exits \X Effects] : CliDeriveCall(outcomes)

SpecCli == InitCli /\ [][NextCli]_vars

\* C15: when derive returns None for one of the derivatives, cli.derive
\* still attempts every derivative of the file and the process is not
\* ended.
C15_DerivativeSkipped ==
    (call.op = "cli.derive"
        /\ \E k \in 1..Len(call.rets) : call.rets[k] = None) =>
        /\ call.status = "returned"
        /\ Len(call.attempted) = Len(call.todo)

\* the position in TERMS of a key that is a term
TermIndex(k) == CHOOSE i \in 1..Len(TERMS) : TERMS[i] = Lower(k)

\* the order of fields the rule gives: the terms first, in the order of
\* TERMS, then the other keys in alphabetical order
ComesBefore(k1, k2) ==
    IF Lower(k1) \in Range(TERMS)
    THEN Lower(k2) \in Range(TERMS) => TermIndex(k1) < TermIndex(k2)
    ELSE Lower(k2) \notin Range(TERMS) /\ StrLess(k1, k2)

\* where the text holds the first line of the field k (0: nowhere)
LineOf(text, k) ==
    LET h  == ReplaceChar(Lower(k), "_", " ") \o <<":", " ">>
        at == {i \in 1..Len(text) :
                  /\ OccursAt(text, h, i)
                  /\ i = 1 \/ text[i - 1] = "\n"}
    IN IF at = {} THEN 0 ELSE Least(at)

\* C17: of two fields that _make_tags emits, the one the rule puts first
\* (terms in the order of TERMS, then the other keys alphabetically) comes
\* first in the text, whatever the key order of the mapping.
C17_FieldOrder ==
    pc = "encoded" =>
        \A i, j \in 1..Len(metadata) :
            (/\ LineOf(tagText, metadata[i].k) > 0
             /\ LineOf(tagText, metadata[j].k) > 0
             /\ ComesBefore(metadata[i].k, metadata[j].k))
                => LineOf(tagText, metadata[i].k) < LineOf(tagText, metadata[j].k)

\* the value is None or one of the strings "None" and "null"
NullLike(v) == v = NoneV \/ v \in {StrV(sNone), StrV(sNull)}

\* the lines of the text that start the field k
LinesOf(text, k) ==
    SelectSeq(Split(text, CRLF, -1),
              LAMBDA l : OccursAt(l, ReplaceChar(Lower(k), "_", " ") \o <<":">>, 1))

\* C18: a field whose value is None, "None" or "null" gives no line when
\* strip_nulls is set, and exactly one line "<field>: None" when it is not.
C18_NullHandling ==
    pc = "encoded" =>
        \A i \in 1..Len(metadata) :
            NullLike(metadata[i].v) =>
                LinesOf(tagText, metadata[i].k) =
                    IF strip_nulls THEN <<>>
                    ELSE <<ReplaceChar(Lower(metadata[i].k), "_", " ")
                              \o <<":", " ">> \o sNone>>

(***************************************************************************)
(* SpecBoot: load_bag in a directory that may not be a bag yet             *)
(***************************************************************************)

sBagit == <<"b","a","g","i","t",".","t","x","t">>
sBagInfo == <<"b","a","g","-","i","n","f","o",".","t","x","t">>
kArchive == <<"a","r","c","h","i","v","e">>
kArchiveUrl == <<"a","r","c","h","i","v","e","_","u","r","l">>
kDcmiType == <<"d","c","m","i","_","t","y","p","e">>

\* os.path.isdir(p)
IsDir(d, p) == Exists(d, p) /\ d.entries[p].kind = "dir"

\* is_root(path) for the working directory
IsRoot(d) == IsFile(d, sBagit) /\ IsDir(d, DATA_DIR)

\* vars(Bag()): the attributes of a Bag made with no arguments, in the
\* order __init__ sets them; of the attributes between identifier and
\* dcmi_type, all None, none is followed
DefaultBag ==
    <<[k |-> kArchive, v |-> StrV(<<"o","d","e","u","m">>)],
      [k |-> kArchiveUrl, v |-> NoneV],
      [k |-> kTitle, v |-> NoneV],
      [k |-> kIdentifier, v |-> NoneV],
      [k |-> kDcmiType, v |-> StrV(<<"C","o","l","l","e","c","t","i","o","n">>)],
      [k |-> kNote, v |-> NoneV]>>

\* "for key in tags: setattr(b, key, tags[key])"
SetAttrs(b, dict) ==
    [i \in 1..Len(b) |->
        IF HasKey(dict, b[i].k)
        THEN [k |-> b[i].k, v |-> dict[Lookup(dict, b[i].k)].v]
        ELSE b[i]]
    \o SelectSeq(dict, LAMBDA e : ~HasKey(b, e.k))

\* the disk with the directory p
WithDir(d, p) ==
    [d EXCEPT !.entries =
        [q \in DOMAIN d.entries \cup {p} |->
            IF q = p THEN [kind |-> "dir", data |-> "none"]
            ELSE d.entries[q]]]

\* os.makedirs(p) for a path of at most two levels: FileExistsError when p
\* exists; else p is made, and its parent if it is missing
MakeDirs(d, p) ==
    IF Exists(d, p) THEN [raised |-> TRUE, disk |-> d]
    ELSE [raised |-> FALSE,
          disk |-> WithDir(IF DirName(p) # <<>> /\ ~Exists(d, DirName(p))
                           THEN WithDir(d, DirName(p)) ELSE d, p)]

\* the os.makedirs calls of new, one after the other, up to the first that
\* raises
RECURSIVE MakeAll(_, _)
MakeAll(d, ps) ==
    IF ps = <<>> THEN [raised |-> FALSE, disk |-> d]
    ELSE LET m == MakeDirs(d, Head(ps))
         IN IF m.raised THEN m ELSE MakeAll(m.disk, Tail(ps))

\* new() in the working directory, whose bag-info.txt, if there is one,
\* holds text: the disk and the text of bag-info.txt after the call, and
\* whether it raised
New(d, text) ==
    LET d1 == IF IsFile(d, sBagit) THEN d ELSE WithFile(d, sBagit, "bagit")
        m  == IF IsDir(d1, DERIV_DIR) THEN [raised |-> FALSE, disk |-> d1]
              ELSE MakeAll(d1, <<DERIV_DIR, FILE_METADATA_DIR,
                                 ITEM_METADATA_DIR, HTML_DIR>>)
    IN IF m.raised THEN [raised |-> TRUE, disk |-> m.disk, text |-> text]
       ELSE IF IsFile(m.disk, sBagInfo)
       THEN [raised |-> FALSE, disk |-> m.disk, text |-> text]
       ELSE [raised |-> FALSE, disk |-> WithFile(m.disk, sBagInfo, "tags"),
             text |-> MakeTags(DefaultBag, FALSE)]

\* load_bag() once the bag is there: n is what new() gave (or the disk as
\* it was, in a bag root), t what _load_tag_file gives for bag-info.txt
LoadBagRead(created, n, t) ==
    [created |-> created, disk |-> n.disk, text |-> n.text,
     raised |-> n.raised \/ (Exists(n.disk, sBagInfo) /\ t.raised),
     bag |-> IF n.raised \/ (Exists(n.disk, sBagInfo) /\ t.raised) THEN <<>>
             ELSE IF ~Exists(n.disk, sBagInfo) THEN DefaultBag
             ELSE SetAttrs(DefaultBag, t.dict)]

\* load_bag() from its second step on
LoadBagIn(created, n) == LoadBagRead(created, n, LoadTagFile(n.text))

\* load_bag() in the working directory, which is in no bag above it
LoadBag(d, text) ==
    LoadBagIn(~IsRoot(d),
              IF IsRoot(d) THEN [raised |-> FALSE, disk |-> d, text |-> text]
              ELSE New(d, text))

\* what a bag is made of
BagDirs == {DATA_DIR, DERIV_DIR, FILE_METADATA_DIR, ITEM_METADATA_DIR, HTML_DIR}
BagFiles == {sBagit, sBagInfo}

\* the working directories: any of the elements, data/deriv only in data
BootDisks ==
    {[entries |-> [p \in S |-> IF p \in BagDirs
                               THEN [kind |-> "dir", data |-> "none"]
                               ELSE [kind |-> "file", data |-> "tags"]],
      readonly |-> FALSE] :
        S \in {S \in SUBSET (BagDirs \cup BagFiles) :
                  DERIV_DIR \in S => DATA_DIR \in S}}

\* what a bag-info.txt found there holds: a title, or a line with no colon
BagInfoTexts == {kTitle \o <<":", " ", "x", "\n">>, <<"q", "\n">>}

InitBoot ==
    /\ pc = "shell"
    /\ disk \in BootDisks
    /\ tagText \in IF Exists(disk, sBagInfo) THEN BagInfoTexts ELSE {<<>>}
    /\ call = NoCall
    /\ metadata = <<>>
    /\ strip_nulls = FALSE
    /\ tags = NoTags
    /\ file = NoFile

\* the state after load_bag() gave r
Booted(r) ==
    /\ call' = [op |-> "load_bag", created |-> r.created,
                raised |-> r.raised, diskBefore |-> disk]
    /\ metadata' = r.bag
    /\ disk' = r.disk
    /\ tagText' = r.text
    /\ pc' = "loaded"
    /\ UNCHANGED <<strip_nulls, tags, file>>

\* b = load_bag()
LoadBagCall == pc = "shell" /\ Booted(LoadBag(disk, tagText))

NextBoot == LoadBagCall

SpecBoot == InitBoot /\ [][NextBoot]_vars

\* load_bag was called in a directory that was not a bag root and whose
\* bag-info.txt, if it had one, was well formed
FirstRun ==
    /\ call.op = "load_bag"
    /\ ~IsRoot(call.diskBefore)
    /\ Exists(call.diskBefore, sBagInfo) => tagText # <<"q", "\n">>

\* C20: on a first run load_bag does not raise, every element of the bag is
\* there afterwards, and the Bag returned has the default value of every
\* attribute unless a bag-info.txt that was there before sets it.
C20_Bootstrap ==
    FirstRun =>
        /\ ~call.raised
        /\ \A p \in BagDirs : IsDir(disk, p)
        /\ \A p \in BagFiles : IsFile(disk, p)
        /\ ~Exists(call.diskBefore, sBagInfo) =>
              \A i \in 1..Len(DefaultBag) : metadata[i] = DefaultBag[i]


\* C27: after any rename call, every file that was on the disk before the
\* call is still there with its content, under its old name or, for the
\* renamed file only, under the new name: rename never replaces or removes
\* another file that already has the composed name.
C27_NoClobber ==
    call.op = "rename" =>
        \A q \in DOMAIN call.diskBefore.entries :
            \/ /\ Exists(disk, q)
               /\ disk.entries[q] = call.diskBefore.entries[q]
            \/ /\ q = call.before.filename
               /\ Exists(disk, file.filename)
               /\ disk.entries[file.filename] = call.diskBefore.entries[q]


\* C28: when a derive call ran the converter and returned None, the next
\* derive call for the same source, rule, extension and directory with
\* overwrite off runs the converter again: it never returns, without
\* converting, the path of output the failed run left behind.
C28_FailedRunRetried ==
    ( /\ call.op = "derive"
      /\ call.last.op = "derive"
      /\ call.last.invoked
      /\ call.last.ret = None
      /\ call.args.target = call.last.args.target
      /\ call.args.ext = call.last.args.ext
      /\ call.args.target_dir = call.last.args.target_dir
      /\ ~call.args.overwrite )
    => call.invoked


\* C29: whenever derive returns a path, a file or a directory is on the
\* disk at that path when the call returns, whatever the converter did and
\* whatever overwrite was.
C29_ReturnedPathExists ==
    (call.op = "derive" /\ ~call.raised /\ call.ret # None) =>
        Exists(disk, call.ret)


\* the spellings of a rule name that differ from it only in the case of
\* letters or in '_' against '-'
Spellings(t) ==
    LET cased == {t, Upper(t), Lower(t)}
    IN cased \cup {ReplaceChar(s, "_", "-") : s \in cased}
             \cup {ReplaceChar(s, "-", "_") : s \in cased}

\* the last path component of a basename: the text after its last '/'
Stem(b) == SubSeq(b, RFind(b, "/") + 1, Len(b))

\* C25: the target of derive is <target_dir>/<stem>.<rule>.<identifier>.<ext>:
\* stem is the last path component of the basename, rule is the rule name
\* in lower case with '-' for '_', target_dir is DERIV_DIR unless another
\* directory is given; and every spelling of the rule name that differs
\* only in case or in '_' against '-' gives the same target and the same
\* command.
C25_DerivativeNaming ==
    (call.op = "derive" /\ call.target_fn # None) =>
        /\ call.target_fn =
              (IF call.args.target_dir = None THEN DERIV_DIR
               ELSE call.args.target_dir)
              \o <<"/">> \o Stem(file.basename) \o <<".">>
              \o [i \in 1..Len(call.args.target) |->
                     IF call.args.target[i] = "_" THEN "-"
                     ELSE LowerChar(call.args.target[i])]
              \o <<".">> \o file.identifier \o <<".">> \o call.args.ext
        /\ \A r \in Spellings(call.args.target) :
              /\ TargetFn(file, r, call.args.ext, call.args.target_dir)
                    = call.target_fn
              /\ CommandName(r) = CommandName(call.args.target)

\* C25's case: the thumbnail rule, given in upper case with '_', on a File
\* whose basename has a directory, with the directory of thumbnails
C25_Witness ==
    /\ call.op = "derive"
    /\ call.args.target = <<"D","F","_","I","M","G","_","T","H","U","M","B">>
    /\ RFind(file.basename, "/") > 0
    /\ call.target_fn =
          THUMBS_DIR \o <<"/", "a", ".">>
          \o <<"d","f","-","i","m","g","-","t","h","u","m","b">>
          \o <<".">> \o U1 \o <<".">> \o sPng


\* the text of s before its first '.', and the text after it
BeforeFirstDot(s) ==
    IF Occurrences(s, <<".">>) = {} THEN s
    ELSE SubSeq(s, 1, Least(Occurrences(s, <<".">>)) - 1)
AfterFirstDot(s) ==
    IF Occurrences(s, <<".">>) = {} THEN <<>>
    ELSE SubSeq(s, Least(Occurrences(s, <<".">>)) + 1, Len(s))

\* the text of name before the first occurrence of id, and the text after
BeforeId(name, id) == SubSeq(name, 1, Least(Occurrences(name, id)) - 1)
AfterId(name, id) ==
    SubSeq(name, Least(Occurrences(name, id)) + Len(id), Len(name))

\* s without the one '.' that separates it from what follows or precedes
DropLastDot(s) ==
    IF s # <<>> /\ s[Len(s)] = "." THEN SubSeq(s, 1, Len(s) - 1) ELSE s
DropFirstDot(s) ==
    IF s # <<>> /\ s[1] = "." THEN SubSeq(s, 2, Len(s)) ELSE s

\* the position of the last '.' of a name, 0 if it has none
LastDot(name) == RFind(name, ".")

\* the position of the '.' that starts the extension of a name that is
\* split without an identifier: the last '.' of the last path component
\* that has a character other than '.' before it in the component; 0 if
\* there is none
ExtDot(name) ==
    LET dots == {i \in (RFind(name, "/") + 1)..Len(name) :
                    /\ name[i] = "."
                    /\ \E j \in (RFind(name, "/") + 1)..(i - 1) : name[j] # "."}
    IN IF dots = {} THEN 0 ELSE Greatest(dots)

\* the format tag sets for the text fmt the name gives: SRC when it is empty
FormatOr(fmt) == IF fmt = <<>> THEN sSRC ELSE fmt

\* the text of name from position i + 1 on, empty when i = 0
TextAfter(name, i) == IF i = 0 THEN <<>> ELSE SubSeq(name, i + 1, Len(name))

\* the text of name before position i, the whole name when i = 0
TextBefore(name, i) == IF i = 0 THEN name ELSE SubSeq(name, 1, i - 1)

\* C24 as stated: tag leaves the filename unchanged; when the identifier
\* occurs in the filename, basename is the text before the first '.',
\* format the remaining text before the identifier and ext everything
\* after the identifier; when it does not occur, ext is the suffix after
\* the last '.'; with no format segment the format is SRC.
C24_AsStated ==
    (pc = "tagged" /\ ~call.raised) =>
        /\ file.filename = call.before.filename
        /\ IF Occurrences(file.filename, file.identifier) # {}
           THEN /\ file.basename =
                      BeforeFirstDot(BeforeId(file.filename, file.identifier))
                /\ file.format =
                      FormatOr(DropLastDot(AfterFirstDot(
                          BeforeId(file.filename, file.identifier))))
                /\ file.ext =
                      DropFirstDot(AfterId(file.filename, file.identifier))
           ELSE /\ file.ext = TextAfter(file.filename, LastDot(file.filename))
                /\ file.format =
                      FormatOr(AfterFirstDot(
                          TextBefore(file.filename, LastDot(file.filename))))

\* C24, amended: tag leaves the filename unchanged. When the identifier
\* occurs in the filename, the text before it is taken without the dots at
\* its two ends: basename is that text up to its first '.', format is the
\* rest of it; ext is the text after the identifier without the dots at
\* its two ends. When the identifier does not occur, ext is the suffix
\* after the last '.' of the last path component, and empty when only dots
\* come before that '.' in the component (a hidden file); basename is the
\* text before the first '.' of what precedes the extension, format the
\* rest of it. With no format text, format is SRC.
C24_Decomposition ==
    (pc = "tagged" /\ ~call.raised) =>
        /\ file.filename = call.before.filename
        /\ IF Occurrences(file.filename, file.identifier) # {}
           THEN /\ file.basename =
                      BeforeFirstDot(Strip(
                          BeforeId(file.filename, file.identifier), {"."}))
                /\ file.format =
                      FormatOr(AfterFirstDot(Strip(
                          BeforeId(file.filename, file.identifier), {"."})))
                /\ file.ext =
                      Strip(AfterId(file.filename, file.identifier), {"."})
           ELSE /\ file.ext =
                      Strip(TextAfter(file.filename, ExtDot(file.filename)),
                            {"."})
                /\ file.basename =
                      BeforeFirstDot(
                          TextBefore(file.filename, ExtDot(file.filename)))
                /\ file.format =
                      FormatOr(AfterFirstDot(
                          TextBefore(file.filename, ExtDot(file.filename))))

\* C24's case: the name of tag's example with a format, the identifier and
\* an extension that has a dot
C24_Witness ==
    /\ pc = "tagged"
    /\ ~call.raised
    /\ file.filename = <<"a", ".", "a", ".">> \o U1 \o <<".", "a", ".", "a">>
    /\ file.identifier = U1
    /\ file.basename = <<"a">>
    /\ file.format = <<"a">>
    /\ file.ext = <<"a", ".", "a">>


(***************************************************************************)
(* SpecSlug: File.slug on basenames around the maximal length               *)
(***************************************************************************)

\* max_length of the slugify call in File.slug
SlugMaxLength == 60

\* the characters regex_pattern of File.slug lets through
SlugChars ==
    {LowerCase[i] : i \in 1..Len(LowerCase)}
        \cup {"0", "1", "2", "3", "4", "5", "6", "7", "8", "9"}
        \cup {"-", "_", "/", "."}

\* s with every run of '-' made a single '-'
CollapseDashes(s) ==
    Concat([i \in 1..Len(s) |->
               IF s[i] = "-" /\ i > 1 /\ s[i - 1] = "-" THEN <<>>
               ELSE <<s[i]>>])

\* slugify's smart_truncate with word_boundary off, as File.slug calls it:
\* the text as it is when shorter than max_length, else its first
\* max_length characters without '-' at the ends
SmartTruncate(s, max_length) ==
    IF max_length = 0 \/ Len(s) < max_length THEN s
    ELSE Strip(SubSeq(s, 1, max_length), {"-"})

\* slugify(text, max_length=max_length, regex_pattern=r'[^-a-z0-9_/.]+') on
\* a text of the model's characters: lower case, every run of other
\* characters made '-', runs of '-' made one, '-' stripped from the ends,
\* and the truncation
Slugify(text, max_length) ==
    SmartTruncate(
        Strip(CollapseDashes([i \in 1..Len(text) |->
                                 IF LowerChar(text[i]) \in SlugChars
                                 THEN LowerChar(text[i]) ELSE "-"]),
              {"-"}),
        max_length)

\* File.slug
Slug(f) == Slugify(f.basename, SlugMaxLength)

\* the lengths of the two words of a basename, around the maximal length
WordLens == {0, 1, 5, 29, 30, 54, 55, 59, 60, 61}

\* what stands between the two words: separators, a space, and nothing
\* but a change of case
WordGaps == {<<"-">>, <<" ">>, <<"_">>, <<".">>, <<" ", "-", " ">>, <<"A">>}

\* basenames: a directory or none, a word, a gap and a second word
SlugBasenames ==
    {dir \o Rep("a", n) \o gap \o Rep("b", m) :
        dir \in {<<>>, DATA_DIR \o <<"/">>}, n \in WordLens \ {0},
        gap \in WordGaps, m \in WordLens}

InitSlug ==
    /\ pc = "tagged"
    /\ \E b \in SlugBasenames :
          file = [NewFile(b \o <<".", "t">>) EXCEPT !.basename = b,
                                                     !.format = sSRC,
                                                     !.ext = <<"t">>]
    /\ call = NoCall
    /\ disk = NoDisk
    /\ metadata = <<>>
    /\ strip_nulls = FALSE
    /\ tagText = <<>>
    /\ tags = NoTags

\* f.slug()
SlugCall ==
    /\ pc = "tagged"
    /\ call' = [op |-> "slug", ret |-> Slug(file)]
    /\ pc' = "slugged"
    /\ UNCHANGED <<metadata, strip_nulls, tagText, tags, file, disk>>

NextSlug == SlugCall

SpecSlug == InitSlug /\ [][NextSlug]_vars

\* the characters that end a token of a slug
SlugSeparators == {"-", "_", "/", "."}

\* the slug of the File's basename without the truncation
FullSlug == Slugify(file.basename, 0)

\* C26: slug returns at most 60 characters, all of them in [a-z0-9_/.-],
\* and when the basename is too long the cut falls on a separator: the
\* slug is not cut between two characters of one token.
C26_SlugTruncation ==
    pc = "slugged" =>
        /\ Len(call.ret) <= SlugMaxLength
        /\ \A i \in 1..Len(call.ret) : call.ret[i] \in SlugChars
        /\ Len(call.ret) < Len(FullSlug) =>
              /\ call.ret = SubSeq(FullSlug, 1, Len(call.ret))
              /\ \/ call.ret = <<>>
                 \/ call.ret[Len(call.ret)] \in SlugSeparators
                 \/ FullSlug[Len(call.ret) + 1] \in SlugSeparators


(***************************************************************************)
(* SpecRoot: get_root on paths in, under and outside bags, one bag inside  *)
(* the payload of another                                                  *)
(***************************************************************************)

\* is_root(path)
IsRootAt(d, path) ==
    /\ IsDir(d, path)
    /\ IsFile(d, PathJoin(path, sBagit))
    /\ IsDir(d, PathJoin(path, DATA_DIR))

\* s.rpartition(sep)[0]: the text before the last occurrence of sep, empty
\* when sep does not occur
RPartitionHead(s, sep) ==
    IF Occurrences(s, sep) = {} THEN <<>>
    ELSE SubSeq(s, 1, Greatest(Occurrences(s, sep)) - 1)

\* get_root once the path is resolved to p and subpath is taken from it
GetRootFrom(d, p, subpath) ==
    IF IsRootAt(d, p) THEN p
    ELSE IF IsRootAt(d, subpath) THEN subpath
    ELSE None

\* get_root for the resolved path p
GetRoot(d, p) == GetRootFrom(d, p, RPartitionHead(p, <<"/">> \o DATA_DIR))

\* pathlib.Path(path).resolve() in the working directory cwd, for a path
\* without '..' and a tree without symbolic links
Resolve(cwd, path) ==
    IF path[1] = "/" THEN path
    ELSE IF path = <<".">> THEN cwd
    ELSE PathJoin(cwd, path)

\* the directory of the outer bag, and of the bag in its payload
dOuter == <<"/", "r">>
dInner == PathJoin(PathJoin(dOuter, DATA_DIR), <<"i">>)

\* what a directory has of a bag
BagStates == {"bag", "nobagit", "nodata"}

\* the directories and the files of the tree, the outer and the inner
\* directory having what outer and inner say
RootDirs(outer, inner) ==
    {dOuter, PathJoin(dOuter, HTML_DIR), dInner, PathJoin(dInner, HTML_DIR)}
        \cup {PathJoin(dOuter, DATA_DIR),
              PathJoin(PathJoin(dOuter, DATA_DIR), <<"d","a","t","a","2">>)}
        \cup (IF inner # "nodata" THEN {PathJoin(dInner, DATA_DIR)} ELSE {})
RootFiles(outer, inner) ==
    (IF outer # "nobagit" THEN {PathJoin(dOuter, sBagit)} ELSE {})
        \cup (IF inner # "nobagit" THEN {PathJoin(dInner, sBagit)} ELSE {})

RootDisk(outer, inner) ==
    [entries |->
        [q \in RootDirs(outer, inner) \cup RootFiles(outer, inner) |->
            IF q \in RootDirs(outer, inner)
            THEN [kind |-> "dir", data |-> "none"]
            ELSE [kind |-> "file", data |-> "bagit"]],
     readonly |-> FALSE]

\* the paths get_root is asked about, absolute and relative; a path need
\* not exist
RootPaths ==
    {dOuter, PathJoin(dOuter, DATA_DIR), PathJoin(dOuter, sBagit),
     PathJoin(PathJoin(dOuter, DATA_DIR), <<"x">>),
     PathJoin(PathJoin(dOuter, HTML_DIR), <<"x">>),
     PathJoin(PathJoin(dOuter, DATA_DIR), <<"d","a","t","a","2","/","x">>),
     dInner, PathJoin(dInner, DATA_DIR), PathJoin(dInner, <<"x">>),
     PathJoin(PathJoin(dInner, DATA_DIR), <<"x">>),
     PathJoin(PathJoin(dInner, HTML_DIR), <<"x">>),
     <<"/", "o", "/", "x">>, <<".">>, <<"x">>}

\* the working directories
RootCwds == {dOuter, PathJoin(dInner, DATA_DIR), PathJoin(dInner, HTML_DIR)}

InitRoot ==
    /\ pc = "shell"
    /\ \E outer \in {"bag", "nobagit"}, inner \in BagStates :
          disk = RootDisk(outer, inner)
    /\ \E path \in RootPaths, cwd \in RootCwds :
          call = [op |-> "none", path |-> path,
                  cwd |-> IF path[1] = "/" THEN dOuter ELSE cwd]
    /\ file = NoFile
    /\ metadata = <<>>
    /\ strip_nulls = FALSE
    /\ tagText = <<>>
    /\ tags = NoTags

\* get_root(path)
GetRootCall ==
    /\ pc = "shell"
    /\ call' = [op |-> "get_root", path |-> call.path, cwd |-> call.cwd,
                p |-> Resolve(call.cwd, call.path),
                ret |-> GetRoot(disk, Resolve(call.cwd, call.path))]
    /\ pc' = "rooted"
    /\ UNCHANGED <<metadata, strip_nulls, tagText, tags, file, disk>>

NextRoot == GetRootCall

SpecRoot == InitRoot /\ [][NextRoot]_vars

\* a path and the directories above it
AncestorsOrSelf(p) ==
    {SubSeq(p, 1, i) : i \in {j \in 1..Len(p) : j = Len(p) \/ p[j + 1] = "/"}}
        \cup {<<"/">>}

\* the bag roots among a path and the directories above it
RootsAbove(d, p) == {q \in AncestorsOrSelf(p) : IsRootAt(d, q)}

\* C21: get_root returns the nearest directory, the path itself or one
\* above it, that holds a file bagit.txt and a directory data, the lowest
\* one when bags are nested, and None only when there is none.
C21_NearestRoot ==
    pc = "rooted" =>
        IF RootsAbove(disk, call.p) = {} THEN call.ret = None
        ELSE /\ call.ret \in RootsAbove(disk, call.p)
             /\ \A q \in RootsAbove(disk, call.p) : Len(q) <= Len(call.ret)


\* the tag files of the items of the bag
ItemFiles == {p \in DOMAIN disk.entries : DirName(p) = ITEM_METADATA_DIR}

\* the identifiers of the Items a call returned
Returned == {call.items[k].identifier : k \in 1..Len(call.items)}

\* C22: Bag.items completes and returns one Item for each tag file in
\* item_metadata; after Item.save of an Item, the list has an Item with
\* its identifier and the title saved; and pub_items returns those of the
\* Items that have an html page.
C22_ItemDiscovery ==
    /\ pc = "listed" =>
          /\ ~call.raised
          /\ Len(call.items) = Cardinality(ItemFiles)
          /\ \A k \in 1..Len(call.saved) :
                \E j \in 1..Len(call.items) : call.items[j] = call.saved[k]
    /\ pc = "published" =>
          /\ ~call.raised
          /\ Returned =
                {u \in ItemIds : Exists(disk, ItemPath(u))
                                    /\ Exists(disk, PagePath(u))}


(***************************************************************************)
(* SpecFiles: Item.files finds the files of an Item in the payload         *)
(***************************************************************************)

\* whether the pattern '*.{identifier}.*' matches a file name
MatchesTag(name, identifier) ==
    \E i \in 1..Len(name) :
        OccursAt(name, <<".">> \o identifier \o <<".">>, i)

\* sorted(pathlib.Path('.').glob('data/**/*.{}.*'.format(identifier))), in
\* the bag root d
FilesGlob(d, identifier) ==
    Sorted({p \in DOMAIN d.entries :
               /\ OccursAt(p, DATA_DIR \o <<"/">>, 1)
               /\ MatchesTag(BaseName(p), identifier)})

\* "[load_file(str(p)) for p in g]"
FilesLoaded(d, g) ==
    [k \in 1..Len(g) |-> LoadFile(g[k], TRUE, d, <<>>, Fresh).f]

\* Item.files() for the Item with this identifier, in the bag root d
Files(d, identifier) == FilesLoaded(d, FilesGlob(d, identifier))

dSub == PathJoin(DATA_DIR, <<"s">>)

\* the names a bag can hold: tagged with U1, with and without an
\* extension, in data and in a directory of it; tagged with U2; named by
\* U1 alone; tagged with U1 outside the payload; and untagged
PayloadNames ==
    {PathJoin(DATA_DIR, nTagged),
     PathJoin(DATA_DIR, <<"a", ".">> \o sSRC \o <<".">> \o U1),
     PathJoin(dSub, nTagged),
     PathJoin(DATA_DIR, <<"a", ".">> \o sSRC \o <<".">> \o U2 \o <<".", "t">>),
     PathJoin(DATA_DIR, U1 \o <<".", "t">>),
     PathJoin(HTML_DIR, nTagged),
     PathJoin(DATA_DIR, nPlain)}

\* the bag with these files
PayloadDisk(names) ==
    [entries |->
        [q \in names \cup {DATA_DIR, dSub, HTML_DIR} |->
            IF q \in names THEN [kind |-> "file", data |-> "source"]
            ELSE [kind |-> "dir", data |-> "none"]],
     readonly |-> FALSE]

InitFiles ==
    /\ pc = "item"
    /\ \E names \in SUBSET PayloadNames : disk = PayloadDisk(names)
    /\ \E u \in {U1, U2} : call = [op |-> "none", identifier |-> u]
    /\ file = NoFile
    /\ metadata = <<>>
    /\ strip_nulls = FALSE
    /\ tagText = <<>>
    /\ tags = NoTags

\* i.files()
FilesCall ==
    /\ pc = "item"
    /\ pc' = "found"
    /\ call' = [op |-> "files", identifier |-> call.identifier,
                ret |-> Files(disk, call.identifier)]
    /\ UNCHANGED <<metadata, strip_nulls, tagText, tags, file, disk>>

NextFiles == FilesCall

SpecFiles == InitFiles /\ [][NextFiles]_vars

\* the files of the payload whose name holds the identifier
Holding(identifier) ==
    {p \in DOMAIN disk.entries :
        /\ IsFile(disk, p)
        /\ OccursAt(p, DATA_DIR \o <<"/">>, 1)
        /\ Contains(BaseName(p), identifier)}

\* C23: Item.files returns a File for every file under data/ whose name
\* holds the identifier of the Item, a tagged file without an extension
\* included, and for no other file.
C23_FileDiscovery ==
    pc = "found" =>
        {call.ret[k].filename : k \in 1..Len(call.ret)}
            = Holding(call.identifier)


(***************************************************************************)
(* SpecRetag: a file is tagged and renamed, and then tagged and renamed    *)
(* once more                                                               *)
(***************************************************************************)

nHidden == <<".", "a">>
nHiddenInDir == <<"d", "/", ".", "a">>
nTwoDots == <<"a", ".", "t", ".", "t">>
nEndDot == <<"a", ".">>
nFormat == <<"a", ".", "b", ".", "t">>
nUuidLast == <<"a", ".">> \o U1

\* the names of the files: with and without extension, format segment,
\* identifier, directory and leading dot
RetagNames ==
    {nPlain, nBare, nInDir, nTagged, nHidden, nHiddenInDir, nTwoDots,
     nEndDot, nFormat, nUuidLast}

InitRetag ==
    /\ pc = "loaded"
    /\ \E n \in RetagNames, present, occupied, readonly \in BOOLEAN :
          /\ file = NewFile(n)
          /\ disk = RenameDisk(n, present, occupied, readonly)
    /\ \E u \in {None, U2}, again \in BOOLEAN :
          call = [op |-> "none", uuid |-> u, again |-> again,
                  first |-> <<>>]
    /\ metadata = <<>>
    /\ strip_nulls = FALSE
    /\ tagText = <<>>
    /\ tags = NoTags

\* the File the second tag is called on: the same object, or, when the
\* file is loaded again, File(filename) for the name the first rename gave
RetagSubject ==
    IF pc = "renamed" /\ call.again THEN NewFile(file.filename) ELSE file

\* the step after tag gave r
Retagged(r) ==
    /\ file' = r.f
    /\ pc' = IF r.raised THEN "raised"
             ELSE IF pc = "loaded" THEN "tagged" ELSE "retagged"
    /\ call' = [call EXCEPT !.op = "tag"]
    /\ UNCHANGED <<metadata, strip_nulls, tagText, tags, disk>>

\* f.tag(_uuid), the first and the second time
RetagTag ==
    /\ pc \in {"loaded", "renamed"}
    /\ Retagged(Tag(RetagSubject, call.uuid, Fresh))

\* the step after rename gave r: after the first rename, if it succeeded,
\* the File and the disk are remembered
Rerenamed(r) ==
    /\ file' = r.f
    /\ disk' = r.disk
    /\ pc' = IF r.failed THEN "failed"
             ELSE IF pc = "tagged" THEN "renamed" ELSE "settled"
    /\ call' = [call EXCEPT !.op = "rename",
                            !.first = IF pc = "tagged" /\ ~r.failed
                                      THEN <<[file |-> r.f, disk |-> r.disk]>>
                                      ELSE @]
    /\ UNCHANGED <<metadata, strip_nulls, tagText, tags>>

\* f.rename(), the first and the second time
RetagRename ==
    /\ pc \in {"tagged", "retagged"}
    /\ Rerenamed(Rename(file, disk))

NextRetag == RetagTag \/ RetagRename

SpecRetag == InitRetag /\ [][NextRetag]_vars

\* C30: after tag and a rename that succeeded, tag and rename applied a
\* second time leave identifier, basename, format, ext and the filename on
\* disk as they were, whatever the first filename was.
C30_FixedPoint ==
    (call.first # <<>> /\ pc \in {"raised", "failed", "settled"}) =>
        /\ pc = "settled"
        /\ file = call.first[1].file
        /\ disk = call.first[1].disk

=============================================================================
